---- MODULE Spec2Model ----
(***************************************************************************)
(* Agent Hawke anomaly engine: the merged CRM + SIS scan of                *)
(* src/unnamed/part_002 (POST /run-intelligence, GET /last-scan) as a      *)
(* state machine.  The CRM (LeadSquared), the SIS (Mavis) and the          *)
(* summarizer (OpenAI) are the environment: each external call is one      *)
(* action whose outcome (a response, or an error) the environment picks.   *)
(*                                                                         *)
(* Representation of JavaScript values:                                    *)
(*   - a string the code only compares for equality is a TLA+ string; ""   *)
(*     stands for an absent (undefined / null / empty) string, which the   *)
(*     code's `x || ""` and `x || null` do not tell apart;                 *)
(*   - an activity's EventName, which the code searches with               *)
(*     String.includes, is a sequence of one-character strings;            *)
(*   - a date string is a record: absent, invalid (unparseable), or the    *)
(*     instant it parses to, in milliseconds of the model's epoch;         *)
(*   - a number that may be NaN is a record [nan, v];                      *)
(*   - null (no anomaly, no cached scan) is the record Null;               *)
(*   - money is in cents, so that toFixed(2) loses nothing;                *)
(*   - the en dash of the anomaly type labels is written "-".              *)
(***************************************************************************)
EXTENDS Integers, Sequences, FiniteSets, TLC

(***************************************************************************)
(* CONFIG  (part_002:47-84)                                                *)
(***************************************************************************)
LEAD_TYPE_STUDENT == "OT_2"

TARGET_STAGES ==
  <<"Engagement Initiated", "Application Pending", "Application Completed">>

HIGH_INTENT_SOURCES ==
  {"B2B Referral", "Website", "Chatbot", "Inbound Phone Call",
   "Pay per Click Ads"}

\* "Inbound Phone Call Activity"
KwInboundCall ==
  <<"I","n","b","o","u","n","d"," ","P","h","o","n","e"," ","C","a","l","l"," ","A","c","t","i","v","i","t","y">>
\* "Outbound Phone Call Activity"
KwOutboundCall ==
  <<"O","u","t","b","o","u","n","d"," ","P","h","o","n","e"," ","C","a","l","l"," ","A","c","t","i","v","i","t","y">>
\* "Invorto Call Qualification"
KwInvorto ==
  <<"I","n","v","o","r","t","o"," ","C","a","l","l"," ","Q","u","a","l","i","f","i","c","a","t","i","o","n">>
\* "Meeting"
KwMeeting ==
  <<"M","e","e","t","i","n","g">>
\* "Flostack Appointment"
KwFlostack ==
  <<"F","l","o","s","t","a","c","k"," ","A","p","p","o","i","n","t","m","e","n","t">>
\* "Email Opened"
KwEmailOpened ==
  <<"E","m","a","i","l"," ","O","p","e","n","e","d">>
\* "Email Link Clicked"
KwEmailClicked ==
  <<"E","m","a","i","l"," ","L","i","n","k"," ","C","l","i","c","k","e","d">>
\* "Dynamic Form Submission"
KwFormSubmission ==
  <<"D","y","n","a","m","i","c"," ","F","o","r","m"," ","S","u","b","m","i","s","s","i","o","n">>
\* "Logged into Portal"
KwLoggedIn ==
  <<"L","o","g","g","e","d"," ","i","n","t","o"," ","P","o","r","t","a","l">>
\* "Logged out of Portal"
KwLoggedOut ==
  <<"L","o","g","g","e","d"," ","o","u","t"," ","o","f"," ","P","o","r","t","a","l">>

COUNSELOR_KEYWORDS ==
  {KwInboundCall, KwOutboundCall, KwInvorto, KwMeeting, KwFlostack}

ENGAGEMENT_KEYWORDS ==
  {KwEmailOpened, KwEmailClicked, KwFormSubmission, KwInboundCall,
   KwOutboundCall, KwLoggedIn, KwLoggedOut, KwFlostack, KwInvorto, KwMeeting}

\* The activity type the CRM files event code 211 under: "AI Decision Event".
AI_DECISION_EVENT_NAME ==
  <<"A","I"," ","D","e","c","i","s","i","o","n"," ","E","v","e","n","t">>

\* Paging.RowCount of the activity fetch: the CRM returns at most this many
\* of a lead's activities, the most recent first.
ActivityRowCount == 50

\* Thresholds of the rules.
OfferStalledDays == 14
CounselorDays == 5
PendingStalledDays == 7
HighIntentDays == 7
TuitionMinDollars == 3000
TuitionHighDollars == 5000

\* An amount of dollars, in cents.
Dollars(n) == n * 100

MsPerDay == 1000 * 60 * 60 * 24

(***************************************************************************)
(* JavaScript values                                                       *)
(***************************************************************************)
Null == [null |-> TRUE]

Num(v) == [nan |-> FALSE, v |-> v]
NaN == [nan |-> TRUE, v |-> 0]

\* x > k on numbers: false when x is NaN.
Gt(x, k) == (~x.nan) /\ x.v > k

DateAbsent == [kind |-> "absent", ms |-> 0]
DateInvalid == [kind |-> "invalid", ms |-> 0]
DateAt(t) == [kind |-> "date", ms |-> t]

\* Truthiness of a date string: only the absent one is falsy.
Truthy(d) == d.kind # "absent"

\* String.prototype.includes on sequences of characters.
Includes(s, kw) ==
  \E i \in 0..(Len(s) - Len(kw)) : SubSeq(s, i + 1, i + Len(kw)) = kw

(***************************************************************************)
(* HELPERS  (part_002:90-95)                                               *)
(***************************************************************************)
\* A mutant of daysBetween: without the guard on a missing date string, which
\* then reads as the epoch.
daysBetweenNoGuard(dateString, today) ==
  IF ~Truthy(dateString) THEN Num(today \div MsPerDay)
  ELSE IF dateString.kind = "invalid" THEN NaN
  ELSE Num((today - dateString.ms) \div MsPerDay)

\* A mutant of daysBetween: Math.ceil in place of Math.floor.
daysBetweenCeil(dateString, today) ==
  IF ~Truthy(dateString) THEN Num(0)
  ELSE IF dateString.kind = "invalid" THEN NaN
  ELSE Num(-((dateString.ms - today) \div MsPerDay))

daysBetween(dateString, today) ==
  IF ~Truthy(dateString) THEN Num(0)
  ELSE IF dateString.kind = "invalid" THEN NaN
  ELSE Num((today - dateString.ms) \div MsPerDay)

(***************************************************************************)
(* MERGE CRM + SIS DATA  (part_002:308-334)                                *)
(* `sisRecord` is a row of the SIS or Null.  The name, e-mail, admit term, *)
(* graduation date and scholarship amount take part in no rule and are     *)
(* left out.                                                               *)
(***************************************************************************)
\* parseFloat(sisRecord?.tuition_balance || 0), in cents.
ParseBalance(raw) ==
  IF raw.kind = "absent" THEN Num(0)
  ELSE IF raw.kind = "invalid" THEN NaN
  ELSE Num(raw.cents)

mergeCRMandSIS(lead, sisRecord, today) ==
  [ prospectId         |-> lead.ProspectID,
    crmStage           |-> lead.ProspectStage,
    crmSource          |-> lead.Source,
    stageEnteredOn     |-> lead.mx_Stage_Entered_On,
    offerGivenDate     |-> lead.mx_Offer_Given_Date,
    daysInStage        |-> daysBetween(lead.mx_Stage_Entered_On, today),
    offerAge           |-> daysBetween(lead.mx_Offer_Given_Date, today),
    hasSIS             |-> sisRecord # Null,
    studentId          |-> IF sisRecord = Null THEN "" ELSE sisRecord.student_id,
    enrollmentStatus   |-> IF sisRecord = Null THEN ""
                           ELSE sisRecord.enrollment_status,
    currentTerm        |-> IF sisRecord = Null THEN "" ELSE sisRecord.current_term,
    academicStanding   |-> IF sisRecord = Null THEN ""
                           ELSE sisRecord.academic_standing,
    creditsEarned      |-> IF sisRecord = Null THEN Null
                           ELSE sisRecord.credits_earned,
    tuitionBalance     |-> IF sisRecord = Null THEN Num(0)
                           ELSE ParseBalance(sisRecord.tuition_balance),
    financialAidStatus |-> IF sisRecord = Null THEN ""
                           ELSE sisRecord.financial_aid_status ]

(***************************************************************************)
(* CRM ANOMALY RULES  (part_002:340-407)                                   *)
(* detectCRMAnomalies awaits fetchActivities inside rules 2 and 3.  The    *)
(* rule set is split at that await: NeedsActivities says whether the call  *)
(* is issued, and detectCRMAnomalies takes what it returned (consulted by  *)
(* rules 2 and 3 only).                                                    *)
(***************************************************************************)
Anomaly(type, severity, confidence, source, explanation) ==
  [ type |-> type, severity |-> severity, confidence |-> confidence,
    source |-> source, explanation |-> explanation ]

\* activities.some(a => KEYWORDS.some(kw => (a.EventName || "").includes(kw)))
HasKeyword(activities, keywords) ==
  \E i \in 1..Len(activities) :
    \E kw \in keywords : Includes(activities[i].EventName, kw)

\* A mutant of OfferStalledFires: an offer of exactly 14 days fires too.
OfferStalledFiresFrom14(merged) ==
  /\ Truthy(merged.offerGivenDate)
  /\ merged.crmStage # "Enrolled"
  /\ Gt(merged.offerAge, OfferStalledDays - 1)

\* Rule 1 condition (part_002:345).
OfferStalledFires(merged) ==
  /\ Truthy(merged.offerGivenDate)
  /\ merged.crmStage # "Enrolled"
  /\ Gt(merged.offerAge, OfferStalledDays)

\* A mutant of CounselorRuleEntered: 5 days in the stage are enough.
CounselorRuleEnteredFrom5(merged) ==
  merged.crmStage = "Application Completed"
  /\ Gt(merged.daysInStage, CounselorDays - 1)

\* The conditions under which rule 2 or rule 3 is entered (part_002:356, 374).
CounselorRuleEntered(merged) ==
  merged.crmStage = "Application Completed" /\ Gt(merged.daysInStage, CounselorDays)

PendingRuleEntered(merged) ==
  merged.crmStage = "Application Pending"
  /\ Gt(merged.daysInStage, PendingStalledDays)

\* A mutant of NeedsActivities: the activities are fetched up front.
NeedsActivitiesAlways(merged) == TRUE

\* Whether detectCRMAnomalies reaches an `await fetchActivities(...)`.
NeedsActivities(merged) ==
  /\ ~OfferStalledFires(merged)
  /\ CounselorRuleEntered(merged) \/ PendingRuleEntered(merged)

\* A mutant of detectCRMAnomalies: no short circuit, a later rule that holds
\* replaces the anomaly of an earlier one.
detectCRMAnomaliesLastWins(merged, activities) ==
  IF /\ merged.crmStage = "Engagement Initiated"
     /\ merged.crmSource \in HIGH_INTENT_SOURCES
     /\ Gt(merged.daysInStage, HighIntentDays)
  THEN Anomaly("High Intent - No Movement", "Medium", 82, "CRM",
               <<"No stage movement", merged.daysInStage.v, "days">>)
  ELSE IF PendingRuleEntered(merged)
          /\ ~HasKeyword(activities, ENGAGEMENT_KEYWORDS)
  THEN Anomaly("Application Pending - Stalled", "Medium", 85, "CRM",
               <<"No engagement activity", merged.daysInStage.v, "days">>)
  ELSE IF CounselorRuleEntered(merged)
          /\ ~HasKeyword(activities, COUNSELOR_KEYWORDS)
  THEN Anomaly("Application Completed - No Counselor Follow-up", "High", 88,
               "CRM", <<"No counselor activity", merged.daysInStage.v, "days">>)
  ELSE IF OfferStalledFires(merged)
  THEN Anomaly("Offer Stalled", "High", 90, "CRM",
               <<"Offer given", merged.offerAge.v, "days ago">>)
  ELSE Null

detectCRMAnomalies(merged, activities) ==
  IF OfferStalledFires(merged)
  THEN Anomaly("Offer Stalled", "High", 90, "CRM",
               <<"Offer given", merged.offerAge.v, "days ago">>)
  ELSE IF CounselorRuleEntered(merged)
          /\ ~HasKeyword(activities, COUNSELOR_KEYWORDS)
  THEN Anomaly("Application Completed - No Counselor Follow-up", "High", 88,
               "CRM", <<"No counselor activity", merged.daysInStage.v, "days">>)
  ELSE IF PendingRuleEntered(merged)
          /\ ~HasKeyword(activities, ENGAGEMENT_KEYWORDS)
  THEN Anomaly("Application Pending - Stalled", "Medium", 85, "CRM",
               <<"No engagement activity", merged.daysInStage.v, "days">>)
  ELSE IF /\ merged.crmStage = "Engagement Initiated"
          /\ merged.crmSource \in HIGH_INTENT_SOURCES
          /\ Gt(merged.daysInStage, HighIntentDays)
  THEN Anomaly("High Intent - No Movement", "Medium", 82, "CRM",
               <<"No stage movement", merged.daysInStage.v, "days">>)
  ELSE Null

(***************************************************************************)
(* SIS ANOMALY RULES  (part_002:413-504)                                   *)
(***************************************************************************)
activeCRMStages ==
  {"Engagement Initiated", "Application Pending", "Application Completed",
   "Enrolled"}

\* A mutant of TuitionSeverity: a balance of exactly 5000 is High.
TuitionSeverityFrom5000(merged) ==
  IF merged.financialAidStatus = "Denied" THEN "Critical"
  ELSE IF Gt(merged.tuitionBalance, Dollars(TuitionHighDollars) - 1)
  THEN "High"
  ELSE "Medium"

\* The severity grading of rule 7 (part_002:459-464).
TuitionSeverity(merged) ==
  IF merged.financialAidStatus = "Denied" THEN "Critical"
  ELSE IF Gt(merged.tuitionBalance, Dollars(TuitionHighDollars))
  THEN "High"
  ELSE "Medium"

\* A mutant of detectSISAnomalies: the most severe rule first, so that the
\* academic standing is looked at before the tuition balance.
detectSISAnomaliesStandingFirst(merged) ==
  IF ~merged.hasSIS THEN Null
  ELSE IF /\ merged.enrollmentStatus = "Withdrawn"
          /\ merged.crmStage \in activeCRMStages
  THEN Anomaly("Enrollment Status Mismatch", "Critical", 95, "SIS",
               <<"SIS shows Withdrawn but CRM stage is", merged.crmStage>>)
  ELSE IF merged.academicStanding \in {"Probation", "Suspension"}
  THEN Anomaly(IF merged.academicStanding = "Suspension"
               THEN "Academic Suspension" ELSE "Academic Probation",
               IF merged.academicStanding = "Suspension"
               THEN "Critical" ELSE "High",
               85, "SIS",
               <<"Student on", merged.academicStanding,
                 merged.creditsEarned>>)
  ELSE IF /\ merged.studentId # ""
          /\ merged.enrollmentStatus \in {"Active", "Admitted"}
          /\ merged.crmStage = "Application Completed"
  THEN Anomaly("Enrollment Status Mismatch - Admitted", "High", 92, "SIS",
               <<"SIS has student ID", merged.studentId,
                 merged.enrollmentStatus>>)
  ELSE IF /\ merged.enrollmentStatus \in {"Enrolled", "Active"}
          /\ Gt(merged.tuitionBalance, Dollars(TuitionMinDollars))
  THEN Anomaly("High Tuition Balance", TuitionSeverity(merged), 88, "SIS",
               <<"balance", merged.tuitionBalance.v, "Aid status",
                 merged.financialAidStatus>>)
  ELSE IF /\ merged.enrollmentStatus = "Enrolled"
          /\ merged.creditsEarned = Num(0)
          /\ merged.currentTerm # ""
  THEN Anomaly("Zero Progress - Active Student", "High", 87, "SIS",
               <<"Enrolled for", merged.currentTerm, "but 0 credits earned">>)
  ELSE Null

detectSISAnomalies(merged) ==
  IF ~merged.hasSIS THEN Null
  ELSE IF /\ merged.enrollmentStatus = "Withdrawn"
          /\ merged.crmStage \in activeCRMStages
  THEN Anomaly("Enrollment Status Mismatch", "Critical", 95, "SIS",
               <<"SIS shows Withdrawn but CRM stage is", merged.crmStage>>)
  ELSE IF /\ merged.studentId # ""
          /\ merged.enrollmentStatus \in {"Active", "Admitted"}
          /\ merged.crmStage = "Application Completed"
  THEN Anomaly("Enrollment Status Mismatch - Admitted", "High", 92, "SIS",
               <<"SIS has student ID", merged.studentId,
                 merged.enrollmentStatus>>)
  ELSE IF /\ merged.enrollmentStatus \in {"Enrolled", "Active"}
          /\ Gt(merged.tuitionBalance, Dollars(TuitionMinDollars))
  THEN Anomaly("High Tuition Balance", TuitionSeverity(merged), 88, "SIS",
               <<"balance", merged.tuitionBalance.v, "Aid status",
                 merged.financialAidStatus>>)
  ELSE IF merged.academicStanding \in {"Probation", "Suspension"}
  THEN Anomaly(IF merged.academicStanding = "Suspension"
               THEN "Academic Suspension" ELSE "Academic Probation",
               IF merged.academicStanding = "Suspension"
               THEN "Critical" ELSE "High",
               85, "SIS",
               <<"Student on", merged.academicStanding,
                 merged.creditsEarned>>)
  ELSE IF /\ merged.enrollmentStatus = "Enrolled"
          /\ merged.creditsEarned = Num(0)
          /\ merged.currentTerm # ""
  THEN Anomaly("Zero Progress - Active Student", "High", 87, "SIS",
               <<"Enrolled for", merged.currentTerm, "but 0 credits earned">>)
  ELSE Null

(***************************************************************************)
(* The primary anomaly for the CRM write-back  (part_002:639-643)          *)
(***************************************************************************)
\* crmAnomaly?.severity
SeverityOf(anomaly) == IF anomaly = Null THEN "undefined" ELSE anomaly.severity

\* crmAnomaly || sisAnomaly
OrElse(a, b) == IF a # Null THEN a ELSE b

\* A mutant of primaryAnomaly: the SIS anomaly whenever there is one.
primaryAnomalySisFirst(crmAnomaly, sisAnomaly) == OrElse(sisAnomaly, crmAnomaly)

\* A mutant of primaryAnomaly: the CRM anomaly whenever there is one.
primaryAnomalyCrmFirst(crmAnomaly, sisAnomaly) == OrElse(crmAnomaly, sisAnomaly)

primaryAnomaly(crmAnomaly, sisAnomaly) ==
  IF /\ sisAnomaly # Null
     /\ \/ sisAnomaly.severity = "Critical"
        \/ /\ sisAnomaly.severity = "High"
           /\ SeverityOf(crmAnomaly) # "Critical"
  THEN sisAnomaly
  ELSE OrElse(crmAnomaly, sisAnomaly)

(***************************************************************************)
(* State                                                                   *)
(***************************************************************************)
VARIABLES
  \* --- the environment ---
  now,            \* the wall clock, in ms of the model's epoch
  stageLeads,     \* CRM: stage index -> the leads Leads.Get returns for it
  crmActivities,  \* CRM: ProspectID -> its activities, the most recent first
  crmFields,      \* CRM: ProspectID -> the anomaly fields last written, or Null
  sisRows,        \* SIS: the rows the bulk query returns
  openaiKey,      \* whether OPENAI_API_KEY is configured
  faultBudget,    \* how many external calls the environment may fail
  faults,         \* how many external calls have failed so far
  scansLeft,      \* how many more POST /run-intelligence requests arrive
  \* --- the handler of POST /run-intelligence ---
  pc,             \* the await the handler is suspended at, or "idle"
  sisMap,         \* prospect_id -> SIS row, or Null
  stageIdx,       \* index into TARGET_STAGES of the fetch in progress
  allStudents,    \* the student leads gathered so far
  idx,            \* index into allStudents of the lead being processed
  crmAnomaly,     \* the current lead's CRM anomaly, or Null
  sisAnomaly,     \* the current lead's SIS anomaly, or Null
  anomalies,      \* the anomaly list of the run
  response,       \* the response of the latest run, Null while none was sent
  \* --- module state ---
  lastScanResult, \* the cache GET /last-scan reads, or Null
  \* --- observation ---
  calls,          \* the external calls of the current run, in issue order
  evals,          \* the rule evaluations of the current run, one per lead
  lastScanAtStart,\* lastScanResult as it was when the current run started
  firstAnomalies, \* the anomaly list of the first scan that reported one
  shadowActivities, \* crmActivities had every write of the run succeeded
  shadowAnomalies,  \* the anomaly list had every write of the run succeeded
  \* --- the handler of POST /write-decision (part_000) ---
  wdPc,           \* the await the handler is suspended at, or "idle"
  wdBody,         \* the body of the request being served
  wdResponse,     \* the response to the latest request, Null while none
  wdCalls,        \* the CRM calls of the latest request, in issue order
  wdActivities,   \* CRM: the decision activities created so far
  wdRequestsLeft, \* how many more POST /write-decision requests arrive
  \* --- overlapping requests to POST /run-intelligence ---
  runs,           \* request -> the handler state of its run
  runsLeft,       \* the requests that have not arrived yet
  writes,         \* observation: the CRM writes of all runs, in arrival order
  \* --- the handler of POST /run-intelligence, CRM only (part_003) ---
  coPc,           \* the await the handler is suspended at, or "idle"
  coLeads,        \* `leads`, what Leads.Get returned
  coIdx,          \* index into coLeads of the lead being processed
  coAnomaly,      \* `anomaly` of the current lead, or Null
  anomalyCount,   \* the leads written back so far
  coResponse,     \* the response of the latest run, Null while none was sent
  coCalls,        \* observation: the CRM calls of the run, in issue order
  coRequestsLeft  \* how many more requests arrive

envVars ==
  <<now, stageLeads, crmActivities, crmFields, sisRows, openaiKey,
    faultBudget, faults, scansLeft>>

runVars ==
  <<pc, sisMap, stageIdx, allStudents, idx, crmAnomaly, sisAnomaly,
    anomalies, response>>

obsVars ==
  <<calls, evals, lastScanAtStart, firstAnomalies, shadowActivities, shadowAnomalies>>

wdVars ==
  <<wdPc, wdBody, wdResponse, wdCalls, wdActivities, wdRequestsLeft>>

overlapVars == <<runs, runsLeft, writes>>

crmOnlyVars ==
  <<coPc, coLeads, coIdx, coAnomaly, anomalyCount, coResponse, coCalls,
    coRequestsLeft>>

vars ==
  <<envVars, runVars, lastScanResult, obsVars, wdVars, overlapVars,
    crmOnlyVars>>

(***************************************************************************)
(* Bounds of the model                                                     *)
(***************************************************************************)
\* Leads in the CRM of a scenario.
MaxLeads == 2
\* Scan requests in one behaviour.
MaxScans == 2
\* External calls the environment fails in one behaviour.
MaxFaults == 1

(***************************************************************************)
(* Fixtures: what the CRM and the SIS hold                                 *)
(***************************************************************************)
\* The clock reads day 21 of the model's epoch.
Today == 21 * MsPerDay

DaysAgo(n) == DateAt(Today - n * MsPerDay)

Lead(id, stage, source, leadType, enteredOn, offerDate) ==
  [ ProspectID |-> id, ProspectStage |-> stage, Source |-> source,
    LeadType |-> leadType, mx_Stage_Entered_On |-> enteredOn,
    mx_Offer_Given_Date |-> offerDate ]

BalanceAbsent == [kind |-> "absent", cents |-> 0]
BalanceInvalid == [kind |-> "invalid", cents |-> 0]
Balance(c) == [kind |-> "num", cents |-> c]

SisRow(id, studentId, status, term, standing, credits, balance, aid) ==
  [ prospect_id |-> id, student_id |-> studentId,
    enrollment_status |-> status, current_term |-> term,
    academic_standing |-> standing, credits_earned |-> credits,
    tuition_balance |-> balance, financial_aid_status |-> aid ]

Activity(name) == [EventName |-> name]

\* n copies of an activity.
Repeat(a, n) == [i \in 1..n |-> a]

\* Event names of the fixtures' activities, beside the keywords themselves.
\* "Page Visited": matches no keyword
EvPageVisited ==
  <<"P","a","g","e"," ","V","i","s","i","t","e","d">>
\* "meeting": a counselor keyword in lower case
EvMeetingLower ==
  <<"m","e","e","t","i","n","g">>
\* "EMAIL OPENED": an engagement keyword in upper case
EvEmailOpenedUpper ==
  <<"E","M","A","I","L"," ","O","P","E","N","E","D">>
\* "Team Meeting Held": contains the counselor keyword "Meeting"
EvTeamMeeting ==
  <<"T","e","a","m"," ","M","e","e","t","i","n","g"," ","H","e","l","d">>

ProspectIDs == {"L1", "L2", "L3", "L4", "L5", "L6"}

(***************************************************************************)
(* The external collaborators                                              *)
(***************************************************************************)
\* What an external call may do: answer, or fail while the budget lasts.
Outcomes == IF faults < faultBudget THEN {TRUE, FALSE} ELSE {TRUE}

FaultsAfter(ok) == IF ok THEN faults ELSE faults + 1

\* An external call: the operation, the lead or stage it is for, the position
\* in allStudents of the loop iteration that issued it (0 outside the loop),
\* the anomaly it carries (Null when it carries none) and whether it
\* succeeded.
Call(op, leadId, at, anomaly, ok) ==
  [op |-> op, leadId |-> leadId, at |-> at, anomaly |-> anomaly, ok |-> ok]

\* The first n elements of a sequence.
Take(s, n) == SubSeq(s, 1, IF Len(s) < n THEN Len(s) ELSE n)

\* ProspectActivity.svc/Retrieve with Paging {Offset 0, RowCount 50}
\* (part_002:206-218): the lead's most recent activities.
RetrieveActivities(store, leadId) == Take(store[leadId], ActivityRowCount)

\* ProspectActivity.svc/Create (part_002:273-294): the lead gets one more
\* activity, of event code AI_DECISION_EVENT_CODE, as its most recent one.
CreateActivity(store, leadId) ==
  [store EXCEPT ![leadId] = <<Activity(AI_DECISION_EVENT_NAME)>> \o @]

\* The fields Lead.Update sets (part_002:236-252).  mx_Last_Intelligence_Run
\* is the clock reading.
LeadUpdate(anomaly, today) ==
  [ mx_AI_Anomaly_Status          |-> "Active",
    mx_Latest_Anomaly_Type        |-> anomaly.type,
    mx_Latest_Anomaly_Severity    |-> anomaly.severity,
    mx_Latest_Anomaly_Confidence  |-> anomaly.confidence,
    mx_Latest_Anomaly_Explanation |-> anomaly.explanation,
    mx_Last_Intelligence_Run      |-> today ]

\* The lookup map of fetchAllSISRecords (part_002:125-136): rows without a
\* prospect_id are skipped, a later row replaces an earlier one.
BuildSisMap(rows) ==
  [ id \in ProspectIDs |->
      LET at == {i \in DOMAIN rows : rows[i].prospect_id = id}
      IN  IF at = {} THEN Null
          ELSE rows[CHOOSE i \in at : \A j \in at : j <= i] ]

\* `return {}` of the catch of fetchAllSISRecords (part_002:142).
EmptySisMap == [id \in ProspectIDs |-> Null]

\* A mutant of Students: no filter on the lead type.
StudentsUnfiltered(rawLeads) == rawLeads

\* allFlattened.filter(l => l.LeadType === LEAD_TYPE_STUDENT) (part_002:190).
Students(rawLeads) ==
  SelectSeq(rawLeads, LAMBDA l : l.LeadType = LEAD_TYPE_STUDENT)

(***************************************************************************)
(* The report  (part_002:622-633, 671-690)                                 *)
(***************************************************************************)
\* { ...leadBase, ...anomaly }
Entry(merged, anomaly) ==
  [ leadId           |-> merged.prospectId,
    crmStage         |-> merged.crmStage,
    crmSource        |-> merged.crmSource,
    daysInStage      |-> merged.daysInStage,
    hasSIS           |-> merged.hasSIS,
    enrollmentStatus |-> merged.enrollmentStatus,
    academicStanding |-> merged.academicStanding,
    tuitionBalance   |-> merged.tuitionBalance,
    type             |-> anomaly.type,
    severity         |-> anomaly.severity,
    confidence       |-> anomaly.confidence,
    source           |-> anomaly.source,
    explanation      |-> anomaly.explanation ]

\* The pushes of part_002:650-658.
Pushed(list, merged, crm, sis) ==
  LET withCrm == IF crm # Null THEN Append(list, Entry(merged, crm)) ELSE list
  IN  IF sis # Null THEN Append(withCrm, Entry(merged, sis)) ELSE withCrm

\* A mutant of CountSeverity: a Critical anomaly is counted at every level.
CountSeverityOrCritical(list, severity) ==
  Cardinality({i \in DOMAIN list : list[i].severity \in {severity, "Critical"}})

CountSeverity(list, severity) ==
  Cardinality({i \in DOMAIN list : list[i].severity = severity})

CountSource(list, source) ==
  Cardinality({i \in DOMAIN list : list[i].source = source})

ScanResult(students, list, aiAnalysis) ==
  [ message             |-> "Hawke scan complete",
    total_leads_scanned |-> Len(students),
    anomalies_detected  |-> Len(list),
    by_severity |-> [ critical |-> CountSeverity(list, "Critical"),
                      high     |-> CountSeverity(list, "High"),
                      medium   |-> CountSeverity(list, "Medium") ],
    by_source   |-> [ crm |-> CountSource(list, "CRM"),
                      sis |-> CountSource(list, "SIS") ],
    anomalies   |-> list,
    ai_analysis |-> aiAnalysis ]

NoLeadsResult ==
  [ message             |-> "Hawke scanned - no student leads found",
    total_leads_scanned |-> 0,
    anomalies_detected  |-> 0 ]

ErrorResult == [error |-> "Hawke scan failed", details |-> "error detail"]

\* A mutant of Response: every response goes out with status 200.
ResponseOk(status, body) == [status |-> 200, body |-> body]

Response(status, body) == [status |-> status, body |-> body]

(***************************************************************************)
(* POST /run-intelligence  (part_002:589-701)                              *)
(* One action per await of the handler: the action is the external call's  *)
(* completion together with the synchronous code that follows it, up to    *)
(* the next await.                                                         *)
(***************************************************************************)
\* A mutant of CurLead: every iteration handles the first lead.
CurLeadFirst == allStudents[1]

\* for (const lead of allStudents)
CurLead == allStudents[idx]

CurMerged == mergeCRMandSIS(CurLead, sisMap[CurLead.ProspectID], now)

\* A request arrives; the handler runs to `await fetchAllSISRecords()`.
RunIntelligence ==
  /\ pc = "idle"
  /\ scansLeft > 0
  /\ scansLeft' = scansLeft - 1
  /\ pc' = "sis"
  /\ sisMap' = EmptySisMap
  /\ stageIdx' = 1
  /\ allStudents' = <<>>
  /\ idx' = 1
  /\ crmAnomaly' = Null
  /\ sisAnomaly' = Null
  /\ anomalies' = <<>>
  /\ response' = Null
  /\ calls' = <<>>
  /\ evals' = <<>>
  /\ lastScanAtStart' = lastScanResult
  /\ shadowActivities' = crmActivities
  /\ shadowAnomalies' = <<>>
  /\ UNCHANGED <<wdVars, overlapVars, crmOnlyVars>>
  /\ UNCHANGED <<now, stageLeads, crmActivities, crmFields, sisRows,
                 openaiKey, faultBudget, faults, lastScanResult,
                 firstAnomalies>>

\* What fetchAllSISRecords returns (part_002:111-144): the lookup map, or
\* the empty map when the request failed.
SisMapReturned(ok) == IF ok THEN BuildSisMap(sisRows) ELSE EmptySisMap

FetchAllSISRecords ==
  /\ pc = "sis"
  /\ \E ok \in Outcomes :
       /\ sisMap' = SisMapReturned(ok)
       /\ calls' = Append(calls, Call("fetchAllSISRecords", "", 0, Null, ok))
       /\ faults' = FaultsAfter(ok)
  /\ pc' = "leads"
  /\ UNCHANGED <<wdVars, overlapVars, crmOnlyVars>>
  /\ UNCHANGED <<now, stageLeads, crmActivities, crmFields, sisRows,
                 openaiKey, faultBudget, scansLeft, stageIdx, allStudents,
                 idx, crmAnomaly, sisAnomaly, anomalies, response,
                 lastScanResult, evals, lastScanAtStart, firstAnomalies,
                 shadowActivities, shadowAnomalies>>

\* fetchStudentsByStage has no catch: its error reaches the handler's catch
\* (part_002:694-700).  After the last stage the handler returns early when
\* no student was found (part_002:606-612).
\* A mutant of StageFetchThrows: the error is caught and the stage counts as
\* empty, as in fetchActivities.
StageFetchCaught(ok) == FALSE

\* Whether a Leads.Get request ends the run: fetchStudentsByStage
\* (part_002:150-198) has no try/catch, so its error propagates to the
\* handler's catch.
StageFetchThrows(ok) == ~ok

FetchStudentsByStage ==
  /\ pc = "leads"
  /\ \E ok \in Outcomes :
       /\ calls' = Append(calls, Call("fetchStudentsByStage",
                                      TARGET_STAGES[stageIdx], 0, Null, ok))
       /\ faults' = FaultsAfter(ok)
       /\ IF StageFetchThrows(ok)
          THEN /\ response' = Response(500, ErrorResult)
               /\ pc' = "idle"
               /\ UNCHANGED <<allStudents, stageIdx>>
          ELSE LET all == allStudents \o (IF ok
                                           THEN Students(stageLeads[stageIdx])
                                           ELSE <<>>)
               IN  /\ allStudents' = all
                   /\ IF stageIdx < Len(TARGET_STAGES)
                      THEN /\ stageIdx' = stageIdx + 1
                           /\ pc' = "leads"
                           /\ response' = response
                      ELSE /\ stageIdx' = stageIdx
                           /\ IF Len(all) = 0
                              THEN /\ response' = Response(200, NoLeadsResult)
                                   /\ pc' = "idle"
                              ELSE /\ response' = response
                                   /\ pc' = "detect"
  /\ UNCHANGED <<wdVars, overlapVars, crmOnlyVars>>
  /\ UNCHANGED <<now, stageLeads, crmActivities, crmFields, sisRows,
                 openaiKey, faultBudget, scansLeft, sisMap, idx, crmAnomaly,
                 sisAnomaly, anomalies, lastScanResult, evals, lastScanAtStart,
                 firstAnomalies, shadowActivities, shadowAnomalies>>

\* The handler's code from the return of detectCRMAnomalies with `crm` to its
\* next await (part_002:637-659): the SIS rules, the primary anomaly, and
\* either the write-back or, when nothing fired, the next lead.  `fetched`
\* and `activities` say whether fetchActivities was called and what it
\* returned; `shadowCrm` is what detectCRMAnomalies returns had every write of
\* the run succeeded.
AfterDetectCRM(fetched, activities, crm, shadowCrm) ==
  LET sis == detectSISAnomalies(CurMerged)
  IN  /\ evals' = Append(evals,
                     [ lead       |-> CurLead,
                       sisRecord  |-> sisMap[CurLead.ProspectID],
                       merged     |-> CurMerged,
                       recent     |-> RetrieveActivities(crmActivities,
                                                         CurLead.ProspectID),
                       fetched    |-> fetched,
                       activities |-> activities,
                       crm        |-> crm,
                       sis        |-> sis ])
      /\ shadowAnomalies' = Pushed(shadowAnomalies, CurMerged, shadowCrm, sis)
      /\ IF primaryAnomaly(crm, sis) # Null
         THEN /\ crmAnomaly' = crm
              /\ sisAnomaly' = sis
              /\ pc' = "update"
              /\ idx' = idx
         ELSE /\ crmAnomaly' = Null
              /\ sisAnomaly' = Null
              /\ idx' = idx + 1
              /\ pc' = IF idx < Len(allStudents) THEN "detect" ELSE "analyze"

\* The loop reaches a lead: merge, then detectCRMAnomalies up to its await
\* of fetchActivities, or through to the write-back when it needs none.
DetectLead ==
  /\ pc = "detect"
  /\ IF NeedsActivities(CurMerged)
     THEN /\ pc' = "activities"
          /\ UNCHANGED <<idx, crmAnomaly, sisAnomaly, evals, shadowAnomalies>>
     ELSE AfterDetectCRM(FALSE, <<>>,
                         detectCRMAnomalies(CurMerged, <<>>),
                         detectCRMAnomalies(CurMerged, <<>>))
  /\ UNCHANGED <<wdVars, overlapVars, crmOnlyVars>>
  /\ UNCHANGED <<envVars, sisMap, stageIdx, allStudents, anomalies, response,
                 lastScanResult, calls, lastScanAtStart, firstAnomalies,
                 shadowActivities>>

\* What fetchActivities returns (part_002:204-226): the activities, or the
\* empty list when the request failed.
ActivitiesReturned(ok, store, leadId) ==
  IF ok THEN RetrieveActivities(store, leadId) ELSE <<>>

FetchActivities ==
  /\ pc = "activities"
  /\ \E ok \in Outcomes :
       /\ calls' = Append(calls, Call("fetchActivities", CurLead.ProspectID,
                                      idx, Null, ok))
       /\ faults' = FaultsAfter(ok)
       /\ AfterDetectCRM(
            TRUE, ActivitiesReturned(ok, crmActivities, CurLead.ProspectID),
            detectCRMAnomalies(CurMerged,
              ActivitiesReturned(ok, crmActivities, CurLead.ProspectID)),
            detectCRMAnomalies(CurMerged,
              ActivitiesReturned(ok, shadowActivities, CurLead.ProspectID)))
  /\ UNCHANGED <<wdVars, overlapVars, crmOnlyVars>>
  /\ UNCHANGED <<now, stageLeads, crmActivities, crmFields, sisRows,
                 openaiKey, faultBudget, scansLeft, sisMap, stageIdx,
                 allStudents, anomalies, response, lastScanResult,
                 lastScanAtStart, firstAnomalies, shadowActivities>>

\* updateLead (part_002:232-269) catches its error.
UpdateLead ==
  /\ pc = "update"
  /\ \E ok \in Outcomes :
       /\ calls' = Append(calls, Call("updateLead", CurLead.ProspectID, idx,
                                      primaryAnomaly(crmAnomaly, sisAnomaly), ok))
       /\ faults' = FaultsAfter(ok)
       /\ crmFields' =
            IF ok
            THEN [crmFields EXCEPT ![CurLead.ProspectID] =
                    LeadUpdate(primaryAnomaly(crmAnomaly, sisAnomaly), now)]
            ELSE crmFields
  /\ pc' = "log"
  /\ UNCHANGED <<wdVars, overlapVars, crmOnlyVars>>
  /\ UNCHANGED <<now, stageLeads, crmActivities, sisRows, openaiKey,
                 faultBudget, scansLeft, sisMap, stageIdx, allStudents, idx,
                 crmAnomaly, sisAnomaly, anomalies, response, lastScanResult,
                 evals, lastScanAtStart, firstAnomalies, shadowActivities,
                 shadowAnomalies>>

\* logAIDecision (part_002:271-302) catches its error; then the pushes of
\* part_002:650-658 and the next lead.
LogAIDecision ==
  /\ pc = "log"
  /\ \E ok \in Outcomes :
       /\ calls' = Append(calls, Call("logAIDecision", CurLead.ProspectID, idx,
                                      primaryAnomaly(crmAnomaly, sisAnomaly), ok))
       /\ faults' = FaultsAfter(ok)
       /\ crmActivities' =
            IF ok THEN CreateActivity(crmActivities, CurLead.ProspectID)
            ELSE crmActivities
  /\ shadowActivities' = CreateActivity(shadowActivities, CurLead.ProspectID)
  /\ anomalies' = Pushed(anomalies, CurMerged, crmAnomaly, sisAnomaly)
  /\ crmAnomaly' = Null
  /\ sisAnomaly' = Null
  /\ idx' = idx + 1
  /\ pc' = IF idx < Len(allStudents) THEN "detect" ELSE "analyze"
  /\ UNCHANGED <<wdVars, overlapVars, crmOnlyVars>>
  /\ UNCHANGED <<now, stageLeads, crmFields, sisRows, openaiKey, faultBudget,
                 scansLeft, sisMap, stageIdx, allStudents, response,
                 lastScanResult, evals, lastScanAtStart, firstAnomalies,
                 shadowAnomalies>>

\* A mutant of SummarizerCalled: the request is issued whatever the key and
\* the list.
SummarizerCalledAlways == TRUE

\* Whether analyzeWithOpenAI issues its request (part_002:511).
SummarizerCalled == openaiKey /\ Len(anomalies) # 0

\* A mutant of AIAnalysis: a reply that is not JSON is passed on as text.
AIAnalysisUnparsed(outcome) ==
  IF outcome = "ok" THEN [riskSummary |-> "summary"]
  ELSE IF outcome = "malformed" THEN [raw |-> "not JSON"]
  ELSE Null

\* What the summarizer's reply parses to: an error and a reply that is not
\* JSON both end in the catch (part_002:571-574).
AIAnalysis(outcome) ==
  IF outcome = "ok" THEN [riskSummary |-> "summary"] ELSE Null

SummarizerOutcomes ==
  IF faults < faultBudget THEN {"ok", "error", "malformed"} ELSE {"ok"}

\* analyzeWithOpenAI, then the result, the response and the cache
\* (part_002:661-693).
AnalyzeWithOpenAI ==
  /\ pc = "analyze"
  /\ IF SummarizerCalled
     THEN \E outcome \in SummarizerOutcomes :
            /\ calls' = Append(calls, Call("analyzeWithOpenAI", "", 0, Null,
                                           outcome = "ok"))
            /\ faults' = FaultsAfter(outcome = "ok")
            /\ response' = Response(200, ScanResult(allStudents, anomalies,
                                                    AIAnalysis(outcome)))
     ELSE /\ UNCHANGED <<calls, faults>>
          /\ response' = Response(200, ScanResult(allStudents, anomalies, Null))
  /\ lastScanResult' = response'.body
  /\ firstAnomalies' = IF firstAnomalies.seen THEN firstAnomalies
                       ELSE [seen |-> TRUE, list |-> anomalies]
  /\ pc' = "idle"
  /\ UNCHANGED <<wdVars, overlapVars, crmOnlyVars>>
  /\ UNCHANGED <<now, stageLeads, crmActivities, crmFields, sisRows,
                 openaiKey, faultBudget, scansLeft, sisMap, stageIdx,
                 allStudents, idx, crmAnomaly, sisAnomaly, anomalies,
                 evals, lastScanAtStart, shadowActivities, shadowAnomalies>>

Next ==
  \/ RunIntelligence
  \/ FetchAllSISRecords
  \/ FetchStudentsByStage
  \/ DetectLead
  \/ FetchActivities
  \/ UpdateLead
  \/ LogAIDecision
  \/ AnalyzeWithOpenAI

(***************************************************************************)
(* GET /last-scan  (part_002:710-715)                                      *)
(* The handler is synchronous and reads the cache only: what it answers is *)
(* a function of the state.                                                *)
(***************************************************************************)
NoScanYet ==
  [message |-> "No scan has been run yet. POST /run-intelligence first."]

LastScan == IF lastScanResult = Null THEN NoScanYet ELSE lastScanResult

(***************************************************************************)
(* POST /write-decision  (part_000:203-244)                                *)
(* A field of the JSON body is undefined (the key is missing) or a string, *)
(* possibly the empty one.                                                 *)
(***************************************************************************)
FieldAbsent == [kind |-> "undefined", s |-> ""]
Field(v) == [kind |-> "string", s |-> v]

\* !x on a body field: undefined and "" are falsy.
Falsy(f) == f.kind = "undefined" \/ f.s = ""

\* x || fallback on a body field.
OrDefault(f, fallback) == IF Falsy(f) THEN fallback ELSE f.s

Body(leadId, decision, riskLevel, findings) ==
  [ leadId |-> leadId, decision |-> decision, riskLevel |-> riskLevel,
    findings |-> findings ]

AI_DECISION_EVENT_CODE == 230

\* A mutant of MissingInput: only the lead id is required.
MissingInputLeadOnly(body) == Falsy(body.leadId)

\* !leadId || !decision (part_000:207).
MissingInput(body) == Falsy(body.leadId) \/ Falsy(body.decision)

\* The payload of ProspectActivity.svc/Create (part_000:215-225).
DecisionActivity(body) ==
  [ RelatedProspectId |-> body.leadId.s,
    ActivityEvent     |-> AI_DECISION_EVENT_CODE,
    ActivityNote      |-> <<"Agent Hawke Decision:", body.decision.s>>,
    mx_Custom_1       |-> body.decision.s,
    mx_Custom_2       |-> OrDefault(body.riskLevel, "Unknown"),
    mx_Custom_3       |-> OrDefault(body.findings, "") ]

BadRequest == [error |-> "leadId and decision are required"]

DecisionPosted(activityId) ==
  [message |-> "Decision activity posted", activityId |-> activityId]

DecisionFailed == [error |-> "Failed to write decision activity"]

\* The bodies a client sends.
RequestBodies ==
  { Body(leadId, decision, riskLevel, findings) :
      leadId \in {FieldAbsent, Field(""), Field("L1")},
      decision \in {FieldAbsent, Field(""), Field("Escalate")},
      riskLevel \in {FieldAbsent, Field("High")},
      findings \in {FieldAbsent, Field("Offer Stalled")} }

\* A request arrives; the handler runs to the 400 or to its await of the
\* activity creation.
WriteDecision ==
  /\ wdPc = "idle"
  /\ wdRequestsLeft > 0
  /\ wdRequestsLeft' = wdRequestsLeft - 1
  /\ \E body \in RequestBodies :
       /\ wdBody' = body
       /\ IF MissingInput(body)
          THEN /\ wdResponse' = Response(400, BadRequest)
               /\ wdPc' = "idle"
          ELSE /\ wdResponse' = Null
               /\ wdPc' = "create"
  /\ wdCalls' = <<>>
  /\ UNCHANGED wdActivities
  /\ UNCHANGED <<envVars, runVars, lastScanResult, obsVars>>
  /\ UNCHANGED <<overlapVars, crmOnlyVars>>

\* The activity creation returns or fails; the handler's catch answers 500.
CreateDecisionActivity ==
  /\ wdPc = "create"
  /\ \E ok \in Outcomes :
       /\ wdCalls' = Append(wdCalls, [payload |-> DecisionActivity(wdBody),
                                      ok |-> ok])
       /\ faults' = FaultsAfter(ok)
       /\ IF ok
          THEN /\ wdActivities' = Append(wdActivities, DecisionActivity(wdBody))
               /\ wdResponse' =
                    Response(200, DecisionPosted(Len(wdActivities) + 1))
          ELSE /\ wdActivities' = wdActivities
               /\ wdResponse' = Response(500, DecisionFailed)
  /\ wdPc' = "idle"
  /\ UNCHANGED <<wdBody, wdRequestsLeft>>
  /\ UNCHANGED <<now, stageLeads, crmActivities, crmFields, sisRows,
                 openaiKey, faultBudget, scansLeft>>
  /\ UNCHANGED <<runVars, lastScanResult, obsVars>>
  /\ UNCHANGED <<overlapVars, crmOnlyVars>>

NextWriteDecision ==
  \/ WriteDecision
  \/ CreateDecisionActivity

(***************************************************************************)
(* Overlapping requests to POST /run-intelligence  (part_002:589-701)      *)
(* Express starts the handler for every request that arrives; each run has *)
(* its own locals (sisMap, allStudents, anomalies, ...) and shares the CRM *)
(* and lastScanResult with the others.  A run is suspended at its awaits   *)
(* only, so the steps of two runs interleave at the granularity of the     *)
(* actions above.  The actions below are those actions on the locals of     *)
(* run r.                                                                  *)
(***************************************************************************)
\* Two requests.
RunIds == {"A", "B"}

\* The locals of a run that has not started.
IdleRun ==
  [ pc          |-> "idle",
    sisMap      |-> EmptySisMap,
    stageIdx    |-> 1,
    allStudents |-> <<>>,
    idx         |-> 1,
    crmAnomaly  |-> Null,
    sisAnomaly  |-> Null,
    anomalies   |-> <<>>,
    response    |-> Null ]

\* A mutant of Admits: a request is held back while a run is in progress.
AdmitsWhenIdle(r) == \A o \in RunIds : runs[o].pc = "idle"

\* Whether the handler starts for request r: it tests nothing on entry, no
\* flag and no lock (part_002:589-592).
Admits(r) == TRUE

LeadOf(run) == run.allStudents[run.idx]

MergedOf(run) == mergeCRMandSIS(LeadOf(run), run.sisMap[LeadOf(run).ProspectID], now)

\* A write that reached the CRM.
Write(r, op, leadId) == [run |-> r, op |-> op, leadId |-> leadId]

\* The locals after the loop body of the current lead is done.
NextLead(run) ==
  [run EXCEPT !.crmAnomaly = Null,
              !.sisAnomaly = Null,
              !.idx = @ + 1,
              !.pc = IF run.idx < Len(run.allStudents) THEN "detect"
                     ELSE "analyze"]

\* The locals after detectCRMAnomalies returned `crm` (part_002:637-648).
AfterDetectCRMIn(run, crm) ==
  LET sis == detectSISAnomalies(MergedOf(run))
  IN  IF primaryAnomaly(crm, sis) # Null
      THEN [run EXCEPT !.crmAnomaly = crm, !.sisAnomaly = sis, !.pc = "update"]
      ELSE NextLead(run)

RunIntelligenceIn(r) ==
  /\ r \in runsLeft
  /\ Admits(r)
  /\ runsLeft' = runsLeft \ {r}
  /\ runs' = [runs EXCEPT ![r] = [IdleRun EXCEPT !.pc = "sis"]]
  /\ UNCHANGED <<envVars, runVars, lastScanResult, obsVars, wdVars, writes,
                 crmOnlyVars>>

FetchAllSISRecordsIn(r) ==
  /\ runs[r].pc = "sis"
  /\ \E ok \in Outcomes :
       /\ runs' = [runs EXCEPT ![r].sisMap = SisMapReturned(ok),
                               ![r].pc = "leads"]
       /\ faults' = FaultsAfter(ok)
  /\ UNCHANGED <<now, stageLeads, crmActivities, crmFields, sisRows,
                 openaiKey, faultBudget, scansLeft>>
  /\ UNCHANGED <<runVars, lastScanResult, obsVars, wdVars, runsLeft, writes,
                 crmOnlyVars>>

FetchStudentsByStageIn(r) ==
  /\ runs[r].pc = "leads"
  /\ \E ok \in Outcomes :
       /\ faults' = FaultsAfter(ok)
       /\ runs' =
            [runs EXCEPT ![r] =
               IF StageFetchThrows(ok)
               THEN [@ EXCEPT !.response = Response(500, ErrorResult),
                              !.pc = "idle"]
               ELSE LET all == @.allStudents
                                 \o Students(stageLeads[@.stageIdx])
                    IN  IF @.stageIdx < Len(TARGET_STAGES)
                        THEN [@ EXCEPT !.allStudents = all,
                                       !.stageIdx = @ + 1]
                        ELSE IF Len(all) = 0
                        THEN [@ EXCEPT !.response = Response(200, NoLeadsResult),
                                       !.pc = "idle"]
                        ELSE [@ EXCEPT !.allStudents = all, !.pc = "detect"]]
  /\ UNCHANGED <<now, stageLeads, crmActivities, crmFields, sisRows,
                 openaiKey, faultBudget, scansLeft>>
  /\ UNCHANGED <<runVars, lastScanResult, obsVars, wdVars, runsLeft, writes,
                 crmOnlyVars>>

DetectLeadIn(r) ==
  /\ runs[r].pc = "detect"
  /\ runs' =
       [runs EXCEPT ![r] =
          IF NeedsActivities(MergedOf(@))
          THEN [@ EXCEPT !.pc = "activities"]
          ELSE AfterDetectCRMIn(@, detectCRMAnomalies(MergedOf(@), <<>>))]
  /\ UNCHANGED <<envVars, runVars, lastScanResult, obsVars, wdVars, runsLeft,
                 writes, crmOnlyVars>>

FetchActivitiesIn(r) ==
  /\ runs[r].pc = "activities"
  /\ \E ok \in Outcomes :
       /\ faults' = FaultsAfter(ok)
       /\ runs' =
            [runs EXCEPT ![r] =
               AfterDetectCRMIn(@,
                 detectCRMAnomalies(MergedOf(@),
                   ActivitiesReturned(ok, crmActivities,
                                      LeadOf(@).ProspectID)))]
  /\ UNCHANGED <<now, stageLeads, crmActivities, crmFields, sisRows,
                 openaiKey, faultBudget, scansLeft>>
  /\ UNCHANGED <<runVars, lastScanResult, obsVars, wdVars, runsLeft, writes,
                 crmOnlyVars>>

UpdateLeadIn(r) ==
  /\ runs[r].pc = "update"
  /\ LET run == runs[r]
         leadId == LeadOf(run).ProspectID
     IN  \E ok \in Outcomes :
           /\ faults' = FaultsAfter(ok)
           /\ crmFields' =
                IF ok
                THEN [crmFields EXCEPT ![leadId] =
                        LeadUpdate(primaryAnomaly(run.crmAnomaly,
                                                  run.sisAnomaly), now)]
                ELSE crmFields
           /\ writes' = IF ok THEN Append(writes, Write(r, "updateLead", leadId))
                        ELSE writes
  /\ runs' = [runs EXCEPT ![r].pc = "log"]
  /\ UNCHANGED <<now, stageLeads, crmActivities, sisRows, openaiKey,
                 faultBudget, scansLeft>>
  /\ UNCHANGED <<runVars, lastScanResult, obsVars, wdVars, runsLeft,
                 crmOnlyVars>>

LogAIDecisionIn(r) ==
  /\ runs[r].pc = "log"
  /\ LET run == runs[r]
         leadId == LeadOf(run).ProspectID
     IN  /\ \E ok \in Outcomes :
              /\ faults' = FaultsAfter(ok)
              /\ crmActivities' =
                   IF ok THEN CreateActivity(crmActivities, leadId)
                   ELSE crmActivities
              /\ writes' = IF ok
                           THEN Append(writes, Write(r, "logAIDecision", leadId))
                           ELSE writes
         /\ runs' =
              [runs EXCEPT ![r] =
                 NextLead([run EXCEPT !.anomalies =
                             Pushed(run.anomalies, MergedOf(run),
                                    run.crmAnomaly, run.sisAnomaly)])]
  /\ UNCHANGED <<now, stageLeads, crmFields, sisRows, openaiKey, faultBudget,
                 scansLeft>>
  /\ UNCHANGED <<runVars, lastScanResult, obsVars, wdVars, runsLeft,
                 crmOnlyVars>>

AnalyzeWithOpenAIIn(r) ==
  /\ runs[r].pc = "analyze"
  /\ LET run == runs[r]
     IN  IF openaiKey /\ Len(run.anomalies) # 0
         THEN \E outcome \in SummarizerOutcomes :
                /\ faults' = FaultsAfter(outcome = "ok")
                /\ runs' = [runs EXCEPT
                     ![r].response =
                        Response(200, ScanResult(run.allStudents, run.anomalies,
                                                 AIAnalysis(outcome))),
                     ![r].pc = "idle"]
         ELSE /\ faults' = faults
              /\ runs' = [runs EXCEPT
                   ![r].response =
                      Response(200, ScanResult(run.allStudents, run.anomalies,
                                               Null)),
                   ![r].pc = "idle"]
  /\ lastScanResult' = runs'[r].response.body
  /\ UNCHANGED <<now, stageLeads, crmActivities, crmFields, sisRows,
                 openaiKey, faultBudget, scansLeft>>
  /\ UNCHANGED <<runVars, obsVars, wdVars, runsLeft, writes, crmOnlyVars>>

\* The steps of run r.
RunStep(r) ==
  \/ RunIntelligenceIn(r)
  \/ FetchAllSISRecordsIn(r)
  \/ FetchStudentsByStageIn(r)
  \/ DetectLeadIn(r)
  \/ FetchActivitiesIn(r)
  \/ UpdateLeadIn(r)
  \/ LogAIDecisionIn(r)
  \/ AnalyzeWithOpenAIIn(r)

NextOverlap ==
  \/ \E r \in RunIds : RunIntelligenceIn(r)
  \/ \E r \in RunIds : FetchAllSISRecordsIn(r)
  \/ \E r \in RunIds : FetchStudentsByStageIn(r)
  \/ \E r \in RunIds : DetectLeadIn(r)
  \/ \E r \in RunIds : FetchActivitiesIn(r)
  \/ \E r \in RunIds : UpdateLeadIn(r)
  \/ \E r \in RunIds : LogAIDecisionIn(r)
  \/ \E r \in RunIds : AnalyzeWithOpenAIIn(r)

(***************************************************************************)
(* POST /run-intelligence, CRM only  (part_003:122-232)                    *)
(* One Leads.Get for a page of leads of any stage and type, the four CRM   *)
(* rules on the lead's own fields, and a write-back whose helpers have no  *)
(* try/catch.  One action per await of the handler.                        *)
(***************************************************************************)
\* Paging { PageIndex: 1, PageSize: 100 } of Leads.Get (part_003:128).
LeadsPageSize == 100

\* Paging { PageIndex: 1, PageSize: 20 } of Activity.Get (part_003:106).
ActivityPageSize == 20

\* The leads Leads.Get returns: the first page of the CRM's leads.
LeadsPage ==
  Take(stageLeads[1] \o stageLeads[2] \o stageLeads[3], LeadsPageSize)

\* What fetchActivities returns (part_003:101-120).
ActivityPage(leadId) == Take(crmActivities[leadId], ActivityPageSize)

\* for (const lead of leads)
CoLead == coLeads[coIdx]

\* activities.some(a => KEYWORDS.includes(a.ActivityEvent)): the event name
\* is one of the keywords.
HasEvent(activities, keywords) ==
  \E i \in 1..Len(activities) : activities[i].EventName \in keywords

CrmOnlyAnomaly(type, severity, explanation) ==
  [type |-> type, severity |-> severity, explanation |-> explanation]

\* Rule 1 (part_003:165).
CoOfferStalled(lead) ==
  /\ Truthy(lead.mx_Offer_Given_Date)
  /\ lead.ProspectStage # "Enrolled"
  /\ Gt(daysBetween(lead.mx_Offer_Given_Date, now), OfferStalledDays)

\* Whether rule 2 or rule 3 is entered, and with it fetchActivities awaited
\* (part_003:173, 188).
CoNeedsActivities(lead) ==
  /\ ~CoOfferStalled(lead)
  /\ \/ /\ lead.ProspectStage = "Application Completed"
        /\ Gt(daysBetween(lead.mx_Stage_Entered_On, now), CounselorDays)
     \/ /\ lead.ProspectStage = "Application Pending"
        /\ Gt(daysBetween(lead.mx_Stage_Entered_On, now), PendingStalledDays)

\* `anomaly` after the four rules (part_003:163-213).
CrmOnlyRules(lead, activities) ==
  LET daysInStage == daysBetween(lead.mx_Stage_Entered_On, now)
      offerAge == daysBetween(lead.mx_Offer_Given_Date, now)
  IN  IF CoOfferStalled(lead)
      THEN CrmOnlyAnomaly("Offer Stalled", "High",
                          <<"Offer given", offerAge.v, "days ago">>)
      ELSE IF /\ lead.ProspectStage = "Application Completed"
              /\ Gt(daysInStage, CounselorDays)
              /\ ~HasEvent(activities, COUNSELOR_KEYWORDS)
      THEN CrmOnlyAnomaly("Application Completed - No Counselor Follow-up",
                          "High", <<"No counselor activity", daysInStage.v, "days">>)
      ELSE IF /\ lead.ProspectStage = "Application Pending"
              /\ Gt(daysInStage, PendingStalledDays)
              /\ ~HasEvent(activities, ENGAGEMENT_KEYWORDS)
      THEN CrmOnlyAnomaly("Application Pending - Stalled", "Medium",
                          <<"No engagement activity", daysInStage.v, "days">>)
      ELSE IF /\ lead.ProspectStage = "Engagement Initiated"
              /\ lead.Source \in HIGH_INTENT_SOURCES
              /\ Gt(daysInStage, HighIntentDays)
      THEN CrmOnlyAnomaly("High Intent - No Movement", "Medium",
                          <<"No movement", daysInStage.v, "days">>)
      ELSE Null

\* The fields Lead.Update sets (part_003:56-61): a fixed confidence, the
\* date part of the clock reading.
CrmOnlyLeadUpdate(anomaly, today) ==
  [ mx_AI_Anomaly_Status          |-> "Active",
    mx_Latest_Anomaly_Type        |-> anomaly.type,
    mx_Latest_Anomaly_Severity    |-> anomaly.severity,
    mx_Latest_Anomaly_Confidence  |-> 90,
    mx_Latest_Anomaly_Explanation |-> anomaly.explanation,
    mx_Last_Intelligence_Run      |-> today \div MsPerDay ]

\* res.json of part_003:222-225 and of the catch, part_003:230.
ScannedSuccessfully(count) ==
  [message |-> "Hawke scanned successfully", anomalies_detected |-> count]

ScanFailed == [error |-> "Hawke scan failed"]

\* A mutant of WriteThrows: the helpers catch their error, as in part_002.
WriteCaught(ok) == FALSE

\* Whether a write-back request ends the run: updateLead and logAIDecision
\* (part_003:52-99) have no try/catch, so a rejected axios.post throws into
\* the handler's catch (part_003:227-231).
WriteThrows(ok) == ~ok

\* The end of the loop body: the next lead, or the response after the last.
CoNextLead(count) ==
  /\ coAnomaly' = Null
  /\ anomalyCount' = count
  /\ IF coIdx < Len(coLeads)
     THEN /\ coIdx' = coIdx + 1
          /\ coPc' = "detect"
          /\ coResponse' = coResponse
     ELSE /\ coIdx' = coIdx
          /\ coPc' = "idle"
          /\ coResponse' = Response(200, ScannedSuccessfully(count))

\* The handler's catch.
CoCatch ==
  /\ coResponse' = Response(500, ScanFailed)
  /\ coPc' = "idle"
  /\ UNCHANGED <<coIdx, coAnomaly, anomalyCount>>

\* The rules are done with `anomaly`: the write-back, or the next lead.
CoAfterRules(anomaly) ==
  IF anomaly # Null
  THEN /\ coAnomaly' = anomaly
       /\ coPc' = "update"
       /\ UNCHANGED <<coIdx, anomalyCount, coResponse>>
  ELSE CoNextLead(anomalyCount)

\* A request arrives; the handler runs to its await of Leads.Get.
RunIntelligenceCrmOnly ==
  /\ coPc = "idle"
  /\ coRequestsLeft > 0
  /\ coRequestsLeft' = coRequestsLeft - 1
  /\ coPc' = "leads"
  /\ coLeads' = <<>>
  /\ coIdx' = 1
  /\ coAnomaly' = Null
  /\ anomalyCount' = 0
  /\ coResponse' = Null
  /\ coCalls' = <<>>
  /\ UNCHANGED <<envVars, runVars, lastScanResult, obsVars, wdVars,
                 overlapVars>>

\* Leads.Get returns or fails (part_003:125-139).
GetLeads ==
  /\ coPc = "leads"
  /\ \E ok \in Outcomes :
       /\ coCalls' = Append(coCalls, Call("Leads.Get", "", 0, Null, ok))
       /\ faults' = FaultsAfter(ok)
       /\ IF ~ok
          THEN /\ CoCatch
               /\ UNCHANGED coLeads
          ELSE /\ coLeads' = LeadsPage
               /\ coAnomaly' = Null
               /\ anomalyCount' = 0
               /\ coIdx' = 1
               /\ IF Len(LeadsPage) = 0
                  THEN /\ coPc' = "idle"
                       /\ coResponse' = Response(200, ScannedSuccessfully(0))
                  ELSE /\ coPc' = "detect"
                       /\ coResponse' = coResponse
  /\ UNCHANGED coRequestsLeft
  /\ UNCHANGED <<now, stageLeads, crmActivities, crmFields, sisRows,
                 openaiKey, faultBudget, scansLeft>>
  /\ UNCHANGED <<runVars, lastScanResult, obsVars, wdVars, overlapVars>>

\* The loop reaches a lead: the rules up to an await of fetchActivities, or
\* through to the write-back or the next lead when they need none.
DetectLeadCrmOnly ==
  /\ coPc = "detect"
  /\ IF CoNeedsActivities(CoLead)
     THEN /\ coPc' = "activities"
          /\ UNCHANGED <<coIdx, coAnomaly, anomalyCount, coResponse>>
     ELSE CoAfterRules(CrmOnlyRules(CoLead, <<>>))
  /\ UNCHANGED <<coLeads, coCalls, coRequestsLeft>>
  /\ UNCHANGED <<envVars, runVars, lastScanResult, obsVars, wdVars,
                 overlapVars>>

\* fetchActivities has no catch either (part_003:101-120).
FetchActivitiesCrmOnly ==
  /\ coPc = "activities"
  /\ \E ok \in Outcomes :
       /\ coCalls' = Append(coCalls, Call("fetchActivities", CoLead.ProspectID,
                                          coIdx, Null, ok))
       /\ faults' = FaultsAfter(ok)
       /\ IF ~ok
          THEN CoCatch
          ELSE CoAfterRules(CrmOnlyRules(CoLead, ActivityPage(CoLead.ProspectID)))
  /\ UNCHANGED <<coLeads, coRequestsLeft>>
  /\ UNCHANGED <<now, stageLeads, crmActivities, crmFields, sisRows,
                 openaiKey, faultBudget, scansLeft>>
  /\ UNCHANGED <<runVars, lastScanResult, obsVars, wdVars, overlapVars>>

\* await updateLead(leadId, anomaly) (part_003:216).
UpdateLeadCrmOnly ==
  /\ coPc = "update"
  /\ \E ok \in Outcomes :
       /\ coCalls' = Append(coCalls, Call("updateLead", CoLead.ProspectID,
                                          coIdx, coAnomaly, ok))
       /\ faults' = FaultsAfter(ok)
       /\ crmFields' =
            IF ok
            THEN [crmFields EXCEPT ![CoLead.ProspectID] =
                    CrmOnlyLeadUpdate(coAnomaly, now)]
            ELSE crmFields
       /\ IF WriteThrows(ok)
          THEN CoCatch
          ELSE /\ coPc' = "log"
               /\ UNCHANGED <<coIdx, coAnomaly, anomalyCount, coResponse>>
  /\ UNCHANGED <<coLeads, coRequestsLeft>>
  /\ UNCHANGED <<now, stageLeads, crmActivities, sisRows, openaiKey,
                 faultBudget, scansLeft>>
  /\ UNCHANGED <<runVars, lastScanResult, obsVars, wdVars, overlapVars>>

\* await logAIDecision(leadId, anomaly); anomalyCount++ (part_003:217-218).
LogAIDecisionCrmOnly ==
  /\ coPc = "log"
  /\ \E ok \in Outcomes :
       /\ coCalls' = Append(coCalls, Call("logAIDecision", CoLead.ProspectID,
                                          coIdx, coAnomaly, ok))
       /\ faults' = FaultsAfter(ok)
       /\ crmActivities' =
            IF ok THEN CreateActivity(crmActivities, CoLead.ProspectID)
            ELSE crmActivities
       /\ IF WriteThrows(ok)
          THEN CoCatch
          ELSE CoNextLead(anomalyCount + 1)
  /\ UNCHANGED <<coLeads, coRequestsLeft>>
  /\ UNCHANGED <<now, stageLeads, crmFields, sisRows, openaiKey, faultBudget,
                 scansLeft>>
  /\ UNCHANGED <<runVars, lastScanResult, obsVars, wdVars, overlapVars>>

NextCrmOnly ==
  \/ RunIntelligenceCrmOnly
  \/ GetLeads
  \/ DetectLeadCrmOnly
  \/ FetchActivitiesCrmOnly
  \/ UpdateLeadCrmOnly
  \/ LogAIDecisionCrmOnly

(***************************************************************************)
(* Initial states                                                          *)
(***************************************************************************)
\* No overlapping run has started.
InitOverlapHandler ==
  /\ runs = [r \in RunIds |-> IdleRun]
  /\ writes = <<>>

\* The CRM-only handler is idle.
InitCrmOnlyHandler ==
  /\ coPc = "idle"
  /\ coLeads = <<>>
  /\ coIdx = 1
  /\ coAnomaly = Null
  /\ anomalyCount = 0
  /\ coResponse = Null
  /\ coCalls = <<>>

\* The handler is idle, nothing is cached (part_002:708).
InitHandler ==
  /\ now = Today
  /\ crmFields = [id \in ProspectIDs |-> Null]
  /\ faults = 0
  /\ pc = "idle"
  /\ sisMap = EmptySisMap
  /\ stageIdx = 1
  /\ allStudents = <<>>
  /\ idx = 1
  /\ crmAnomaly = Null
  /\ sisAnomaly = Null
  /\ anomalies = <<>>
  /\ response = Null
  /\ lastScanResult = Null
  /\ calls = <<>>
  /\ evals = <<>>
  /\ lastScanAtStart = Null
  /\ firstAnomalies = [seen |-> FALSE, list |-> <<>>]
  /\ shadowActivities = crmActivities
  /\ shadowAnomalies = <<>>

\* The handler of POST /write-decision is idle.
InitWriteDecisionHandler ==
  /\ wdPc = "idle"
  /\ wdBody = Body(FieldAbsent, FieldAbsent, FieldAbsent, FieldAbsent)
  /\ wdResponse = Null
  /\ wdCalls = <<>>
  /\ wdActivities = <<>>

\* What Leads.Get returns per stage for a CRM holding `leads`: the leads at
\* that stage; a lead at no target stage comes back with the first query
\* (the CRM's stage filter and the record's stage field need not agree).
ByStage(leads) ==
  [ s \in 1..Len(TARGET_STAGES) |->
      SelectSeq(leads, LAMBDA l :
        \/ l.ProspectStage = TARGET_STAGES[s]
        \/ /\ s = 1
           /\ \A t \in 1..Len(TARGET_STAGES) : l.ProspectStage # TARGET_STAGES[t]) ]

SeqsUpTo(S, n) == UNION {[1..k -> S] : k \in 0..n}

\* --- Scenarios: a CRM of up to MaxLeads leads (the same lead may come back
\* more than once), scanned up to MaxScans times, with failing calls. ---
ScenarioLeads ==
  { \* Application Completed for 6 days, no activity, not in the SIS
    Lead("L1", "Application Completed", "Website", "OT_2",
         DaysAgo(6), DateAbsent),
    \* offer given 20 days ago; withdrawn in the SIS
    Lead("L2", "Application Pending", "Chatbot", "OT_2",
         DaysAgo(8), DaysAgo(20)),
    \* Application Pending for 8 days, its one engagement activity is the
    \* oldest of the 50 activities it has; on probation in the SIS
    Lead("L3", "Application Pending", "Website", "OT_2",
         DaysAgo(8), DateAbsent),
    \* high-intent source, no movement for 8 days; a balance in the SIS
    Lead("L4", "Engagement Initiated", "Website", "OT_2",
         DaysAgo(8), DateAbsent),
    \* nothing wrong
    Lead("L5", "Engagement Initiated", "Walk-In", "OT_2",
         DaysAgo(2), DateAbsent),
    \* not a student
    Lead("L6", "Engagement Initiated", "Website", "OT_1",
         DaysAgo(9), DateAbsent) }

ScenarioActivities ==
  [ id \in ProspectIDs |->
      IF id = "L3"
      THEN Repeat(Activity(EvPageVisited), ActivityRowCount - 1)
           \o <<Activity(KwEmailOpened)>>
      ELSE IF id = "L5" THEN <<Activity(EvPageVisited)>>
      ELSE <<>> ]

ScenarioSisRows ==
  << SisRow("L2", "S2", "Withdrawn", "", "Good", Num(0), BalanceAbsent, ""),
     SisRow("L3", "S3", "Admitted", "", "Probation", Num(12), BalanceAbsent, ""),
     SisRow("L4", "S4", "Enrolled", "Fall", "Good", Num(9),
            Balance(Dollars(4000)), "Approved"),
     SisRow("", "S9", "Withdrawn", "", "Good", Num(0), BalanceAbsent, "") >>

InitScenario ==
  /\ \E leads \in SeqsUpTo(ScenarioLeads, MaxLeads) :
       stageLeads = ByStage(leads)
  /\ crmActivities = ScenarioActivities
  /\ sisRows = ScenarioSisRows
  /\ openaiKey \in BOOLEAN
  /\ faultBudget = MaxFaults
  /\ scansLeft = MaxScans
  /\ InitHandler
  /\ wdRequestsLeft = 0
  /\ runsLeft = {}
  /\ coRequestsLeft = 0
  /\ InitWriteDecisionHandler
  /\ InitOverlapHandler
  /\ InitCrmOnlyHandler

Spec == InitScenario /\ [][Next]_vars

\* Every external call eventually resolves or errors: a handler suspended at
\* an await is eventually resumed.  Nothing obliges a request to arrive.
CallsResolve ==
  /\ WF_vars(FetchAllSISRecords)
  /\ WF_vars(FetchStudentsByStage)
  /\ WF_vars(DetectLead)
  /\ WF_vars(FetchActivities)
  /\ WF_vars(UpdateLead)
  /\ WF_vars(LogAIDecision)
  /\ WF_vars(AnalyzeWithOpenAI)

\* --- One request to a CRM of up to MaxLeads leads, with failing calls. ---
InitOneScan ==
  /\ \E leads \in SeqsUpTo(ScenarioLeads, MaxLeads) :
       stageLeads = ByStage(leads)
  /\ crmActivities = ScenarioActivities
  /\ sisRows = ScenarioSisRows
  /\ openaiKey \in BOOLEAN
  /\ faultBudget = MaxFaults
  /\ scansLeft = 1
  /\ InitHandler
  /\ wdRequestsLeft = 0
  /\ runsLeft = {}
  /\ coRequestsLeft = 0
  /\ InitWriteDecisionHandler
  /\ InitOverlapHandler
  /\ InitCrmOnlyHandler

SpecLive == InitOneScan /\ [][Next]_vars /\ CallsResolve

\* --- Rule fixtures: a CRM of one lead "L1", scanned once, no call fails.
\* The lead, its activities and its SIS row range over the values on both
\* sides of every comparison the rules make. ---
RuleStages ==
  {"Engagement Initiated", "Application Pending", "Application Completed",
   "Enrolled", ""}

RuleSources == {"Website", "Walk-In"}

\* Stage-entered timestamps: none, unparseable, 5 days, 1 ms short of 6
\* days, 6, 7 and 8 days ago, and a day ahead of the clock; the clock
\* reading itself, 1 ms before and after it, 1 ms short of 24 hours, 24
\* hours, and 1 ms short of 48 hours ago.
RuleEnteredOn ==
  {DateAbsent, DateInvalid, DaysAgo(5), DateAt(Today - 6 * MsPerDay + 1),
   DaysAgo(6), DaysAgo(7), DaysAgo(8), DateAt(Today + MsPerDay),
   DateAt(Today), DateAt(Today - 1), DateAt(Today + 1),
   DateAt(Today - MsPerDay + 1), DaysAgo(1), DateAt(Today - 2 * MsPerDay + 1)}

\* Offer timestamps: none, unparseable, 14 days, 1 ms short of 15 days, 15
\* and 20 days ago, and 1 ms ahead of the clock.
RuleOfferDates ==
  {DateAbsent, DateInvalid, DaysAgo(14), DateAt(Today - 15 * MsPerDay + 1),
   DaysAgo(15), DaysAgo(20), DateAt(Today + 1)}

RuleActivities ==
  { <<>>,
    <<Activity(KwMeeting)>>,
    <<Activity(KwEmailOpened)>>,
    <<Activity(EvPageVisited), Activity(EvTeamMeeting)>>,
    <<Activity(EvMeetingLower)>>,
    <<Activity(EvEmailOpenedUpper)>>,
    <<Activity(<<>>)>>,
    \* a counselor activity older than the 50 most recent activities
    Repeat(Activity(EvPageVisited), ActivityRowCount) \o <<Activity(KwMeeting)>> }

RuleLeads ==
  { Lead("L1", stage, source, "OT_2", enteredOn, offerDate) :
      stage \in RuleStages, source \in RuleSources,
      enteredOn \in RuleEnteredOn, offerDate \in RuleOfferDates }

\* Leads for the SIS rules: nothing fires in the CRM rules at three stages,
\* "Offer Stalled" (High) fires, "High Intent - No Movement" (Medium) fires.
FewLeads ==
  { Lead("L1", "Engagement Initiated", "Walk-In", "OT_2", DaysAgo(2), DateAbsent),
    Lead("L1", "Application Completed", "Walk-In", "OT_2", DaysAgo(2), DateAbsent),
    Lead("L1", "", "Walk-In", "OT_2", DaysAgo(2), DateAbsent),
    Lead("L1", "Application Pending", "Walk-In", "OT_2", DaysAgo(2), DaysAgo(20)),
    Lead("L1", "Engagement Initiated", "Website", "OT_2", DaysAgo(8), DateAbsent) }

RuleBalances ==
  { BalanceAbsent, BalanceInvalid,
    Balance(Dollars(TuitionMinDollars)),
    Balance(Dollars(TuitionMinDollars) + 1),
    Balance(Dollars(TuitionHighDollars)),
    Balance(Dollars(TuitionHighDollars) + 1) }

RuleSisRows ==
  { SisRow("L1", studentId, status, term, standing, credits, balance, aid) :
      studentId \in {"", "S1"},
      status \in {"Withdrawn", "Active", "Admitted", "Enrolled", ""},
      term \in {"", "Fall"},
      standing \in {"Good", "Probation", "Suspension"},
      credits \in {Null, Num(0), Num(12)},
      balance \in RuleBalances,
      aid \in {"Denied", "Approved"} }

\* SIS rows for the CRM rules: withdrawn (Critical), or not in the SIS.
FewSisRows ==
  { <<>>,
    <<SisRow("L1", "S1", "Withdrawn", "", "Good", Num(0), BalanceAbsent, "")>> }

InitRules ==
  /\ \/ \E lead \in RuleLeads, acts \in RuleActivities, rows \in FewSisRows :
          /\ stageLeads = ByStage(<<lead>>)
          /\ crmActivities = [id \in ProspectIDs |->
                                IF id = "L1" THEN acts ELSE <<>>]
          /\ sisRows = rows
     \/ \E lead \in FewLeads, row \in RuleSisRows :
          /\ stageLeads = ByStage(<<lead>>)
          /\ crmActivities = [id \in ProspectIDs |-> <<>>]
          /\ sisRows = <<row>>
  /\ openaiKey = TRUE
  /\ faultBudget = 0
  /\ scansLeft = 1
  /\ InitHandler
  /\ wdRequestsLeft = 0
  /\ runsLeft = {}
  /\ coRequestsLeft = 0
  /\ InitWriteDecisionHandler
  /\ InitOverlapHandler
  /\ InitCrmOnlyHandler

SpecRules == InitRules /\ [][Next]_vars

\* --- Manual decisions: up to MaxScans POST /write-decision requests, with
\* failing calls; no scan runs. ---
InitWriteDecision ==
  /\ stageLeads = ByStage(<<>>)
  /\ crmActivities = [id \in ProspectIDs |-> <<>>]
  /\ sisRows = <<>>
  /\ openaiKey = FALSE
  /\ faultBudget = MaxFaults
  /\ scansLeft = 0
  /\ InitHandler
  /\ wdRequestsLeft = MaxScans
  /\ runsLeft = {}
  /\ coRequestsLeft = 0
  /\ InitWriteDecisionHandler
  /\ InitOverlapHandler
  /\ InitCrmOnlyHandler

SpecWriteDecision == InitWriteDecision /\ [][NextWriteDecision]_vars

\* --- Two overlapping requests to a CRM of up to MaxLeads leads: an
\* anomalous lead whose rule reads its activities, an anomalous lead with an
\* offer and a SIS row, and a lead nothing is wrong with.  No call fails. ---
OverlapLeads ==
  {l \in ScenarioLeads : l.ProspectID \in {"L1", "L2", "L5"}}

InitOverlap ==
  /\ \E leads \in SeqsUpTo(OverlapLeads, MaxLeads) :
       stageLeads = ByStage(leads)
  /\ crmActivities = ScenarioActivities
  /\ sisRows = ScenarioSisRows
  /\ openaiKey = FALSE
  /\ faultBudget = 0
  /\ scansLeft = 0
  /\ InitHandler
  /\ wdRequestsLeft = 0
  /\ InitWriteDecisionHandler
  /\ runsLeft = RunIds
  /\ InitOverlapHandler
  /\ coRequestsLeft = 0
  /\ InitCrmOnlyHandler

SpecOverlap == InitOverlap /\ [][NextOverlap]_vars

\* --- One request to the CRM-only handler on a CRM of up to MaxLeads leads,
\* with failing calls. ---
InitCrmOnly ==
  /\ \E leads \in SeqsUpTo(ScenarioLeads, MaxLeads) :
       stageLeads = ByStage(leads)
  /\ crmActivities = ScenarioActivities
  /\ sisRows = <<>>
  /\ openaiKey = FALSE
  /\ faultBudget = MaxFaults
  /\ scansLeft = 0
  /\ InitHandler
  /\ wdRequestsLeft = 0
  /\ InitWriteDecisionHandler
  /\ runsLeft = {}
  /\ InitOverlapHandler
  /\ coRequestsLeft = 1
  /\ InitCrmOnlyHandler

SpecCrmOnly == InitCrmOnly /\ [][NextCrmOnly]_vars

(***************************************************************************)
(* Vocabulary of the properties                                            *)
(***************************************************************************)
\* The run has ended and sent a response.
RunEnded == pc = "idle" /\ response # Null

\* The run has ended with a success report over at least one lead.
ScanReported ==
  /\ RunEnded
  /\ response.status = 200
  /\ Len(allStudents) > 0

\* The calls of the current run of the given operations.
CallsOf(ops) == {i \in DOMAIN calls : calls[i].op \in ops}

WriteOps == {"updateLead", "logAIDecision"}

\* The timestamp parses, and the whole days from it to the clock reading,
\* rounded down, are more than n: at least n + 1 full days have passed
\* (stated on the timestamp, not through daysBetween).
WholeDaysOld(d, n) ==
  /\ d.kind = "date"
  /\ now - d.ms >= (n + 1) * MsPerDay

\* The type of an anomaly; "none" for Null.
TypeOf(a) == IF a = Null THEN "none" ELSE a.type

(***************************************************************************)
(* C1.  The primary anomaly written back is the SIS anomaly if it is       *)
(* Critical; otherwise the SIS anomaly if it is High and the CRM anomaly   *)
(* is absent or not Critical; otherwise the CRM anomaly if there is one;   *)
(* otherwise the SIS anomaly.                                              *)
(***************************************************************************)
C1_Expected(crm, sis) ==
  CASE sis # Null /\ sis.severity = "Critical" -> sis
    [] sis # Null /\ sis.severity = "High"
         /\ (crm = Null \/ crm.severity # "Critical") -> sis
    [] OTHER -> IF crm # Null THEN crm ELSE sis

\* Every write-back call carries the primary anomaly of the lead's two
\* anomalies, and a lead with an anomaly is written back.
C1_PrimaryAnomaly ==
  /\ pc = "log" =>
       /\ calls[Len(calls)].op = "updateLead"
       /\ calls[Len(calls)].anomaly = C1_Expected(crmAnomaly, sisAnomaly)
  /\ pc = "update" => C1_Expected(crmAnomaly, sisAnomaly) # Null
  /\ \A i \in DOMAIN calls :
       i > 1 /\ calls[i].op = "logAIDecision" =>
         calls[i].anomaly = calls[i - 1].anomaly

\* A Critical "Enrollment Status Mismatch" is written back for a lead whose
\* CRM anomaly is High.
C1_Witness ==
  /\ pc = "log"
  /\ crmAnomaly # Null
  /\ crmAnomaly.severity = "High"
  /\ sisAnomaly # Null
  /\ sisAnomaly.type = "Enrollment Status Mismatch"
  /\ calls[Len(calls)].anomaly = sisAnomaly

(***************************************************************************)
(* C2.  For each lead identifier the anomaly list holds at most one entry  *)
(* of origin CRM and at most one of origin SIS, whatever the lead fetches  *)
(* return.                                                                 *)
(***************************************************************************)
C2_OnePerOriginPerLead ==
  \A id \in ProspectIDs, origin \in {"CRM", "SIS"} :
    Cardinality({i \in DOMAIN anomalies :
                   anomalies[i].leadId = id /\ anomalies[i].source = origin}) <= 1

(***************************************************************************)
(* C3.  "Offer Stalled" (High) fires for a lead if and only if an          *)
(* offer-given timestamp exists, the stage is not "Enrolled" and the offer *)
(* age in whole days is strictly greater than 14.                          *)
(***************************************************************************)
C3_Condition(lead) ==
  /\ lead.mx_Offer_Given_Date.kind # "absent"
  /\ lead.ProspectStage # "Enrolled"
  /\ WholeDaysOld(lead.mx_Offer_Given_Date, 14)

C3_OfferStalled ==
  \A i \in DOMAIN evals :
    /\ TypeOf(evals[i].crm) = "Offer Stalled" <=> C3_Condition(evals[i].lead)
    /\ TypeOf(evals[i].crm) = "Offer Stalled" => evals[i].crm.severity = "High"

\* The rule has fired, in a reported scan, for a lead whose offer is 15 days
\* old.
C3_Witness ==
  /\ ScanReported
  /\ \E i \in DOMAIN evals :
       /\ evals[i].lead.mx_Offer_Given_Date = DaysAgo(15)
       /\ TypeOf(evals[i].crm) = "Offer Stalled"
       /\ \E k \in DOMAIN response.body.anomalies :
            response.body.anomalies[k].type = "Offer Stalled"

(***************************************************************************)
(* C4.  The CRM rule set returns the anomaly of the first rule, in the     *)
(* order Offer Stalled, Application Completed - No Counselor Follow-up,    *)
(* Application Pending - Stalled, High Intent - No Movement, whose         *)
(* condition holds on the lead and the fetched activities, and none if no  *)
(* condition holds.                                                        *)
(***************************************************************************)
\* Some activity's event name contains one of the keywords.
C4_Matches(activities, keywords) ==
  \E i \in DOMAIN activities, kw \in keywords :
    Includes(activities[i].EventName, kw)

\* The condition of each rule, on the lead and on what the activity fetch
\* returned to it.
C4_RuleHolds(rule, e) ==
  CASE rule = 1 -> C3_Condition(e.lead)
    [] rule = 2 -> /\ e.lead.ProspectStage = "Application Completed"
                   /\ WholeDaysOld(e.lead.mx_Stage_Entered_On, 5)
                   /\ ~C4_Matches(e.activities, COUNSELOR_KEYWORDS)
    [] rule = 3 -> /\ e.lead.ProspectStage = "Application Pending"
                   /\ WholeDaysOld(e.lead.mx_Stage_Entered_On, 7)
                   /\ ~C4_Matches(e.activities, ENGAGEMENT_KEYWORDS)
    [] rule = 4 -> /\ e.lead.ProspectStage = "Engagement Initiated"
                   /\ e.lead.Source \in HIGH_INTENT_SOURCES
                   /\ WholeDaysOld(e.lead.mx_Stage_Entered_On, 7)

C4_RuleTypes ==
  << "Offer Stalled", "Application Completed - No Counselor Follow-up",
     "Application Pending - Stalled", "High Intent - No Movement" >>

C4_FirstRuleWins ==
  \A i \in DOMAIN evals :
    LET holding == {r \in 1..4 : C4_RuleHolds(r, evals[i])}
    IN  IF holding = {} THEN evals[i].crm = Null
        ELSE TypeOf(evals[i].crm) =
               C4_RuleTypes[CHOOSE r \in holding : \A q \in holding : r <= q]

\* A lead at "Application Pending" for 8 days with a stale offer and no
\* engagement activity got "Offer Stalled".
C4_Witness ==
  \E i \in DOMAIN evals :
    /\ C4_RuleHolds(1, evals[i])
    /\ C4_RuleHolds(3, evals[i])
    /\ TypeOf(evals[i].crm) = "Offer Stalled"

(***************************************************************************)
(* C5.  A lead at "Application Completed" for more than 5 days whose       *)
(* fetched activities match no counselor keyword gets exactly one CRM      *)
(* anomaly, "Application Completed - No Counselor Follow-up" (High); with  *)
(* 5 days or less, or with a counselor activity fetched, it does not.      *)
(***************************************************************************)
C5_Type == "Application Completed - No Counselor Follow-up"

\* No counselor activity among the lead's recent activities: among those
\* fetched, or, when none was fetched, among those the CRM would return.
C5_NoCounselorActivity(e) ==
  ~C4_Matches(IF e.fetched THEN e.activities ELSE e.recent, COUNSELOR_KEYWORDS)

C5_InStageLong(e) ==
  /\ e.lead.ProspectStage = "Application Completed"
  /\ WholeDaysOld(e.lead.mx_Stage_Entered_On, 5)

\* The CRM entries the evaluation of lead number i put in the anomaly list
\* of a single-lead scan.
C5_CrmEntries(type) ==
  {k \in DOMAIN anomalies :
     anomalies[k].source = "CRM" /\ anomalies[k].type = type}

C5_NotProduced ==
  \A i \in DOMAIN evals :
    (~C5_InStageLong(evals[i]) \/ ~C5_NoCounselorActivity(evals[i]))
      => TypeOf(evals[i].crm) # C5_Type

\* The claim as stated.
C5_Original ==
  /\ \A i \in DOMAIN evals :
       (C5_InStageLong(evals[i]) /\ C5_NoCounselorActivity(evals[i]))
         => /\ TypeOf(evals[i].crm) = C5_Type
            /\ evals[i].crm.severity = "High"
  /\ C5_NotProduced

\* The amended claim: the same, for a lead for which "Offer Stalled" does not
\* fire.
C5_Amended ==
  /\ \A i \in DOMAIN evals :
       (/\ C5_InStageLong(evals[i])
        /\ C5_NoCounselorActivity(evals[i])
        /\ ~C3_Condition(evals[i].lead))
         => /\ evals[i].fetched
            /\ TypeOf(evals[i].crm) = C5_Type
            /\ evals[i].crm.severity = "High"
            /\ (ScanReported /\ Len(allStudents) = 1) =>
                 /\ Cardinality(C5_CrmEntries(C5_Type)) = 1
                 /\ CountSource(response.body.anomalies, "CRM") = 1
  /\ C5_NotProduced

\* A lead 6 days at "Application Completed" whose counselor activity is
\* older than the 50 fetched activities got the anomaly, and it is reported.
C5_Witness ==
  /\ ScanReported
  /\ \E i \in DOMAIN evals :
       /\ evals[i].lead.mx_Stage_Entered_On = DaysAgo(6)
       /\ Len(evals[i].activities) = ActivityRowCount
       /\ TypeOf(evals[i].crm) = C5_Type

(***************************************************************************)
(* C6.  A scan whose lead fetches return no student lead responds with     *)
(* total_leads_scanned = 0 and anomalies_detected = 0 and issues no        *)
(* activity fetch, no field update, no activity-log write and no           *)
(* summarizer call.                                                        *)
(***************************************************************************)
\* The CRM returns no student lead at any stage.
C6_NoStudentLeads ==
  \A s \in DOMAIN stageLeads :
    \A i \in DOMAIN stageLeads[s] :
      stageLeads[s][i].LeadType # LEAD_TYPE_STUDENT

C6_ZeroLeads ==
  C6_NoStudentLeads =>
    /\ CallsOf({"fetchActivities", "updateLead", "logAIDecision",
                "analyzeWithOpenAI"}) = {}
    /\ evals = <<>>
    /\ (RunEnded /\ response.status = 200) =>
         /\ response.body.total_leads_scanned = 0
         /\ response.body.anomalies_detected = 0

\* A scan of a CRM that returned one lead, not a student, has ended with
\* the zero report.
C6_Witness ==
  /\ C6_NoStudentLeads
  /\ Len(stageLeads[1]) > 0
  /\ RunEnded
  /\ response.status = 200
  /\ response.body.total_leads_scanned = 0
  /\ Len(calls) = 1 + Len(TARGET_STAGES)

(***************************************************************************)
(* C7.  With the clock fixed and no change to the CRM or SIS data other    *)
(* than the scans' own write-backs, every scan's anomaly list equals the   *)
(* first scan's list.                                                      *)
(***************************************************************************)
\* No call has failed, and the scan that has just ended reports the list
\* the first scan reported.
C7_RepeatedScansAgree ==
  (ScanReported /\ faults = 0 /\ firstAnomalies.seen) =>
    response.body.anomalies = firstAnomalies.list

(***************************************************************************)
(* C8.  A failed field update or activity-log write does not abort the     *)
(* scan: the remaining leads are still evaluated and written back, the run *)
(* responds with a success report, and the report is the one it would be   *)
(* had the write succeeded.                                                *)
(***************************************************************************)
C8_WriteFailed == \E i \in CallsOf(WriteOps) : ~calls[i].ok

\* The leads of the run with an anomaly.
C8_Anomalous == {i \in DOMAIN evals : evals[i].crm # Null \/ evals[i].sis # Null}

\* The run goes on and ends in a success report over every lead.
C8_ScanContinues ==
  C8_WriteFailed =>
    /\ RunEnded => /\ response.status = 200
                   /\ Len(evals) = Len(allStudents)
                   /\ Cardinality(CallsOf({"updateLead"}))
                        = Cardinality(C8_Anomalous)
                   /\ Cardinality(CallsOf({"logAIDecision"}))
                        = Cardinality(C8_Anomalous)
                   /\ response.body.total_leads_scanned = Len(allStudents)
    /\ ~RunEnded => pc \in {"detect", "activities", "update", "log", "analyze"}

\* The report is the report of the run in which every write succeeded.
C8_SameReport ==
  (C8_WriteFailed /\ RunEnded) =>
    /\ response.body.anomalies = shadowAnomalies
    /\ response.body.anomalies_detected = Len(shadowAnomalies)
    /\ response.body.by_severity.critical
         = CountSeverity(shadowAnomalies, "Critical")
    /\ response.body.by_severity.high = CountSeverity(shadowAnomalies, "High")
    /\ response.body.by_severity.medium
         = CountSeverity(shadowAnomalies, "Medium")
    /\ response.body.by_source.crm = CountSource(shadowAnomalies, "CRM")
    /\ response.body.by_source.sis = CountSource(shadowAnomalies, "SIS")

\* The claim as stated.
C8_WriteFailureHarmless == C8_ScanContinues /\ C8_SameReport

(***************************************************************************)
(* C9.  If the lead fetch of a target stage fails, the run responds 500    *)
(* with an error detail; no rule is evaluated, no write-back and no        *)
(* summarizer call is made, and the last-scan cache keeps its value.       *)
(***************************************************************************)
C9_LeadFetchFailed ==
  \E i \in CallsOf({"fetchStudentsByStage"}) : ~calls[i].ok

C9_LeadFetchFailure ==
  C9_LeadFetchFailed =>
    /\ RunEnded
    /\ response.status = 500
    /\ response.body.details # ""
    /\ ~calls[Len(calls)].ok
    /\ evals = <<>>
    /\ CallsOf(WriteOps \cup {"fetchActivities", "analyzeWithOpenAI"}) = {}
    /\ lastScanResult = lastScanAtStart

\* The second scan failed at its "Application Pending" fetch, and the cache
\* still holds the first scan's report.
C9_Witness ==
  /\ C9_LeadFetchFailed
  /\ calls[Len(calls)].leadId = "Application Pending"
  /\ response.status = 500
  /\ lastScanResult # Null
  /\ lastScanResult.anomalies_detected > 0

(***************************************************************************)
(* C10.  If the bulk fetch of the SIS records fails, the scan is aborted   *)
(* and the run responds 500 with an error detail.                          *)
(***************************************************************************)
C10_SisFetchFailed ==
  \E i \in CallsOf({"fetchAllSISRecords"}) : ~calls[i].ok

C10_SisFetchFailureAborts ==
  (C10_SisFetchFailed /\ RunEnded) =>
    /\ response.status = 500
    /\ evals = <<>>

(***************************************************************************)
(* C11.  If the activity fetch for a lead fails during rule evaluation,    *)
(* the whole run fails and reports an error; a failed activity fetch is    *)
(* never treated as an empty activity list that lets "Application          *)
(* Completed - No Counselor Follow-up" or "Application Pending - Stalled"  *)
(* fire and be written back.                                               *)
(***************************************************************************)
C11_FailedActivityFetches ==
  {i \in CallsOf({"fetchActivities"}) : ~calls[i].ok}

C11_ActivityRuleTypes ==
  {"Application Completed - No Counselor Follow-up",
   "Application Pending - Stalled"}

\* C11: a run whose activity fetch failed ends with a 500, and the lead the
\* fetch was for gets no activity-rule anomaly and no write-back of one.
C11_ActivityFetchFailureAborts ==
  /\ (RunEnded /\ C11_FailedActivityFetches # {}) => response.status = 500
  /\ \A i \in C11_FailedActivityFetches :
       /\ TypeOf(evals[calls[i].at].crm) \notin C11_ActivityRuleTypes
       /\ \A j \in CallsOf(WriteOps) :
            calls[j].at = calls[i].at =>
              TypeOf(calls[j].anomaly) \notin C11_ActivityRuleTypes

(***************************************************************************)
(* C12.  Any failure of the summarizer (request error, or output that is   *)
(* not parseable as JSON) results in a null AI-analysis field while the    *)
(* run still responds with a success report whose anomaly list, counts and *)
(* write-backs are unaffected; a summarizer failure never produces a 500.  *)
(***************************************************************************)
C12_SummarizerFailed ==
  \E i \in CallsOf({"analyzeWithOpenAI"}) : ~calls[i].ok

C12_Count(P(_)) == Cardinality({i \in DOMAIN anomalies : P(anomalies[i])})

\* C12: a run whose summarizer call failed answers 200 with ai_analysis
\* null; the report lists the anomalies gathered before the call with their
\* counts, and the failed call is the run's last (no write follows it).
C12_SummarizerFailureHarmless ==
  (RunEnded /\ C12_SummarizerFailed) =>
    /\ response.status = 200
    /\ response.body.ai_analysis = Null
    /\ response.body.anomalies = anomalies
    /\ response.body.anomalies_detected = Len(anomalies)
    /\ response.body.total_leads_scanned = Len(allStudents)
    /\ response.body.by_severity =
         [ critical |-> C12_Count(LAMBDA a : a.severity = "Critical"),
           high     |-> C12_Count(LAMBDA a : a.severity = "High"),
           medium   |-> C12_Count(LAMBDA a : a.severity = "Medium") ]
    /\ response.body.by_source =
         [ crm |-> C12_Count(LAMBDA a : a.source = "CRM"),
           sis |-> C12_Count(LAMBDA a : a.source = "SIS") ]
    /\ calls[Len(calls)].op = "analyzeWithOpenAI"
    /\ lastScanResult = response.body

\* A scan that wrote back two leads and reported three anomalies, and whose
\* summarizer call then failed.
C12_Witness ==
  /\ RunEnded
  /\ C12_SummarizerFailed
  /\ response.status = 200
  /\ Len(anomalies) = 3
  /\ Cardinality(CallsOf(WriteOps)) = 4

(***************************************************************************)
(* C13.  Within one scan no external call is retried: the SIS bulk fetch   *)
(* is issued exactly once, the lead fetch exactly once per target stage,   *)
(* and for each scanned lead at most one activity fetch, at most one field *)
(* update and at most one activity-log write are issued, also when a call  *)
(* fails; the summarizer is called at most once.                           *)
(***************************************************************************)
C13_LeadOps == {"fetchActivities", "updateLead", "logAIDecision"}

C13_Issued(op, leadId) ==
  Cardinality({i \in CallsOf({op}) : calls[i].leadId = leadId})

\* The SIS fetch and each stage's lead fetch are never issued twice, and
\* have been issued once each when the scan reports.
C13_FetchesOnce ==
  /\ C13_Issued("fetchAllSISRecords", "") <= 1
  /\ \A s \in DOMAIN TARGET_STAGES :
       C13_Issued("fetchStudentsByStage", TARGET_STAGES[s]) <= 1
  /\ (RunEnded /\ response.status = 200) =>
       /\ C13_Issued("fetchAllSISRecords", "") = 1
       /\ \A s \in DOMAIN TARGET_STAGES :
            C13_Issued("fetchStudentsByStage", TARGET_STAGES[s]) = 1

C13_SummarizerAtMostOnce == C13_Issued("analyzeWithOpenAI", "") <= 1

\* No iteration of the lead loop issues the same call twice.
C13_PerIterationAtMostOnce ==
  \A op \in C13_LeadOps : \A k \in DOMAIN allStudents :
    Cardinality({i \in CallsOf({op}) : calls[i].at = k}) <= 1

\* No lead gets the same call twice in a scan.
C13_PerLeadAtMostOnce ==
  \A op \in C13_LeadOps : \A id \in ProspectIDs : C13_Issued(op, id) <= 1

\* C13: the SIS fetch and each stage's lead fetch are issued once, each lead
\* gets at most one activity fetch, one field update and one activity-log
\* write, and the summarizer at most one call.
C13_NoRetries ==
  /\ C13_FetchesOnce
  /\ C13_SummarizerAtMostOnce
  /\ C13_PerLeadAtMostOnce

\* What holds of C13 in the code: nothing is retried within an iteration.
C13_NothingRepeated ==
  /\ C13_FetchesOnce
  /\ C13_SummarizerAtMostOnce
  /\ C13_PerIterationAtMostOnce

(***************************************************************************)
(* C14.  Within one scan leads are processed strictly sequentially in      *)
(* fetch order: for any two leads i before j, every external call made for *)
(* lead i (activity fetch, field update, activity-log write) has completed *)
(* before any call for lead j is issued, and for a single lead the order   *)
(* is activity fetch (if any), then field update, then activity-log write. *)
(***************************************************************************)
\* The calls made for leads, in the order they were issued.  A call is
\* issued and completed in one step: the handler awaits each call.
C14_LeadCalls == CallsOf({"fetchActivities", "updateLead", "logAIDecision"})

C14_Rank(op) ==
  IF op = "fetchActivities" THEN 1 ELSE IF op = "updateLead" THEN 2 ELSE 3

\* C14: every call made for a lead is for the lead at the position of the
\* loop; calls for an earlier position all come before calls for a later
\* one; within a position the order is fetch, update, log.
C14_SequentialInFetchOrder ==
  /\ \A a \in C14_LeadCalls :
       /\ calls[a].at \in DOMAIN allStudents
       /\ calls[a].leadId = allStudents[calls[a].at].ProspectID
  /\ \A a, b \in C14_LeadCalls :
       a < b =>
         \/ calls[a].at < calls[b].at
         \/ /\ calls[a].at = calls[b].at
            /\ C14_Rank(calls[a].op) < C14_Rank(calls[b].op)

\* Two different leads were scanned: the first was written back, the second
\* had its activities fetched and was written back.
C14_Witness ==
  /\ ScanReported
  /\ Len(allStudents) = 2
  /\ allStudents[1].ProspectID # allStudents[2].ProspectID
  /\ \E a, b, c, d, e \in C14_LeadCalls :
       /\ a < b /\ b < c /\ c < d /\ d < e
       /\ calls[a].at = 1 /\ calls[a].op = "updateLead"
       /\ calls[b].at = 1 /\ calls[b].op = "logAIDecision"
       /\ calls[c].at = 2 /\ calls[c].op = "fetchActivities"
       /\ calls[d].at = 2 /\ calls[d].op = "updateLead"
       /\ calls[e].at = 2 /\ calls[e].op = "logAIDecision"

(***************************************************************************)
(* C15.  After any sequence of POST /run-intelligence runs, GET /last-scan *)
(* returns the report of the most recent run that completed successfully   *)
(* (including a successful run that scanned zero leads), and returns the   *)
(* "no scan yet" message only if no run has completed successfully since   *)
(* process start.                                                          *)
(***************************************************************************)
\* What GET /last-scan answered when the current run started.
C15_LastScanAtStart ==
  IF lastScanAtStart = Null THEN NoScanYet ELSE lastScanAtStart

\* C15: once a run has ended, GET /last-scan returns that run's report if
\* the run succeeded (status 200), and what it returned before the run if
\* the run failed; so it says "no scan yet" only while no run has succeeded.
C15_LastScanIsLatestSuccess ==
  RunEnded =>
    IF response.status = 200
    THEN LastScan = response.body
    ELSE LastScan = C15_LastScanAtStart

\* What holds of C15 in the code: the same, for the runs that scanned at
\* least one lead; a run that found no lead leaves the cache as it was.
C15_ExceptZeroLeadRuns ==
  RunEnded =>
    IF ScanReported
    THEN LastScan = response.body
    ELSE LastScan = C15_LastScanAtStart

(***************************************************************************)
(* C16.  POST /write-decision responds 400 whenever leadId or decision is  *)
(* missing from the body, and in that case issues no call to the CRM; when *)
(* both are present it issues exactly one activity-create call and         *)
(* responds 500 if that call fails.                                        *)
(***************************************************************************)
\* The request has been answered.
C16_Answered == wdPc = "idle" /\ wdResponse # Null

\* The field is missing: the key is not in the body, or its value is empty.
C16_Missing(f) == f.kind = "undefined" \/ f.s = ""

\* C16: a request without leadId or decision is answered 400 without a CRM
\* call; one with both issues one activity-create call for that lead, and
\* is answered 500 if the call failed (200 otherwise).  No request issues a
\* second call.
C16_WriteDecisionValidates ==
  /\ Len(wdCalls) <= 1
  /\ C16_Answered =>
       IF C16_Missing(wdBody.leadId) \/ C16_Missing(wdBody.decision)
       THEN /\ wdResponse.status = 400
            /\ wdCalls = <<>>
       ELSE /\ Len(wdCalls) = 1
            /\ wdCalls[1].payload.RelatedProspectId = wdBody.leadId.s
            /\ wdCalls[1].payload.mx_Custom_1 = wdBody.decision.s
            /\ wdResponse.status = IF wdCalls[1].ok THEN 200 ELSE 500

\* After a decision was posted, a request with a lead id but no decision
\* was answered 400 without a call.
C16_Witness ==
  /\ C16_Answered
  /\ Len(wdActivities) = 1
  /\ wdBody.leadId = Field("L1")
  /\ wdBody.decision = FieldAbsent
  /\ wdResponse.status = 400
  /\ wdCalls = <<>>

(***************************************************************************)
(* C17.  Keyword matching of activities is case-insensitive containment:   *)
(* an activity whose event name contains a counselor (respectively         *)
(* engagement) keyword in any letter case, e.g. "meeting" or               *)
(* "EMAIL OPENED", counts as a qualifying activity and prevents            *)
(* "Application Completed - No Counselor Follow-up" (respectively          *)
(* "Application Pending - Stalled") from firing.                           *)
(***************************************************************************)
C17_UpperCase ==
  <<"A","B","C","D","E","F","G","H","I","J","K","L","M",
    "N","O","P","Q","R","S","T","U","V","W","X","Y","Z">>

C17_LowerCase ==
  <<"a","b","c","d","e","f","g","h","i","j","k","l","m",
    "n","o","p","q","r","s","t","u","v","w","x","y","z">>

C17_ToLower(str) ==
  [ i \in 1..Len(str) |->
      IF \E k \in DOMAIN C17_UpperCase : C17_UpperCase[k] = str[i]
      THEN C17_LowerCase[CHOOSE k \in DOMAIN C17_UpperCase :
                           C17_UpperCase[k] = str[i]]
      ELSE str[i] ]

\* Some activity's event name contains some keyword, letter case aside.
C17_MatchesAnyCase(activities, keywords) ==
  \E i \in DOMAIN activities : \E kw \in keywords :
    Includes(C17_ToLower(activities[i].EventName), C17_ToLower(kw))

\* C17: when the fetched activities hold a counselor keyword in any letter
\* case the counselor anomaly does not fire, and when they hold an
\* engagement keyword in any letter case the stalled anomaly does not fire.
C17_CaseInsensitiveMatch ==
  \A i \in DOMAIN evals :
    evals[i].fetched =>
      /\ C17_MatchesAnyCase(evals[i].activities, COUNSELOR_KEYWORDS) =>
           TypeOf(evals[i].crm) # "Application Completed - No Counselor Follow-up"
      /\ C17_MatchesAnyCase(evals[i].activities, ENGAGEMENT_KEYWORDS) =>
           TypeOf(evals[i].crm) # "Application Pending - Stalled"

(***************************************************************************)
(* C18.  daysBetween returns 0 for an input that fails to parse as a date  *)
(* (e.g. "not-a-date"), exactly as it does for an absent input.            *)
(***************************************************************************)
\* C18: the days computed from an unparseable stage-entered or offer-given
\* timestamp are the number 0.
C18_UnparseableIsZero ==
  \A i \in DOMAIN evals :
    /\ evals[i].lead.mx_Stage_Entered_On.kind = "invalid" =>
         evals[i].merged.daysInStage = [nan |-> FALSE, v |-> 0]
    /\ evals[i].lead.mx_Offer_Given_Date.kind = "invalid" =>
         evals[i].merged.offerAge = [nan |-> FALSE, v |-> 0]

\* What holds of C18 in the code: an absent timestamp gives 0.
C18_AbsentIsZero ==
  \A i \in DOMAIN evals :
    /\ evals[i].lead.mx_Stage_Entered_On.kind = "absent" =>
         evals[i].merged.daysInStage = [nan |-> FALSE, v |-> 0]
    /\ evals[i].lead.mx_Offer_Given_Date.kind = "absent" =>
         evals[i].merged.offerAge = [nan |-> FALSE, v |-> 0]

(***************************************************************************)
(* C19.  For every parseable timestamp t, daysBetween returns              *)
(* floor((now - t) / 24h): a timestamp exactly 24 hours in the past gives  *)
(* 1, one between 0 and 24 hours in the past gives 0, one between 24 and   *)
(* 48 hours gives 1, and a timestamp in the future gives a negative number *)
(* (so no age-based rule fires for it).                                    *)
(***************************************************************************)
\* d is the floor of the time from t to the clock reading, in days.
C19_IsFloor(t, d) ==
  /\ ~d.nan
  /\ d.v * MsPerDay <= now - t.ms
  /\ now - t.ms < (d.v + 1) * MsPerDay
  /\ now - t.ms = MsPerDay => d.v = 1
  /\ (0 < now - t.ms /\ now - t.ms < MsPerDay) => d.v = 0
  /\ (MsPerDay < now - t.ms /\ now - t.ms < 2 * MsPerDay) => d.v = 1
  /\ now - t.ms < 0 => d.v < 0

C19_StageAgeTypes ==
  {"Application Completed - No Counselor Follow-up",
   "Application Pending - Stalled", "High Intent - No Movement"}

\* C19: the days computed from a parseable stage-entered or offer-given
\* timestamp are the floor of the elapsed days, and a lead whose timestamp
\* is in the future gets no anomaly of a rule on that timestamp's age.
C19_FloorOfElapsedDays ==
  \A i \in DOMAIN evals :
    LET e == evals[i]
    IN  /\ e.lead.mx_Stage_Entered_On.kind = "date" =>
             /\ C19_IsFloor(e.lead.mx_Stage_Entered_On, e.merged.daysInStage)
             /\ now < e.lead.mx_Stage_Entered_On.ms =>
                  TypeOf(e.crm) \notin C19_StageAgeTypes
        /\ e.lead.mx_Offer_Given_Date.kind = "date" =>
             /\ C19_IsFloor(e.lead.mx_Offer_Given_Date, e.merged.offerAge)
             /\ now < e.lead.mx_Offer_Given_Date.ms =>
                  TypeOf(e.crm) # "Offer Stalled"

\* A lead that entered its stage 1 ms less than 48 hours ago, with an offer
\* dated 1 ms after the clock reading: 1 day in the stage, offer age -1.
C19_Witness ==
  /\ ScanReported
  /\ \E i \in DOMAIN evals :
       /\ now - evals[i].lead.mx_Stage_Entered_On.ms = 2 * MsPerDay - 1
       /\ evals[i].merged.daysInStage = [nan |-> FALSE, v |-> 1]
       /\ evals[i].lead.mx_Offer_Given_Date.kind = "date"
       /\ evals[i].lead.mx_Offer_Given_Date.ms = now + 1
       /\ evals[i].merged.offerAge = [nan |-> FALSE, v |-> -1]

(***************************************************************************)
(* C20.  For every lead with at least one fired anomaly (and for no other  *)
(* lead) the scan attempts exactly one field update followed by exactly    *)
(* one activity-log write, both carrying the primary anomaly's type,       *)
(* severity and explanation; the activity-log write is attempted even when *)
(* the field update for that lead failed, and every lead that received a   *)
(* write-back attempt appears in the report's anomaly list.                *)
(***************************************************************************)
\* An anomaly fired in the k-th evaluation of the run.
C20_Fired(k) == evals[k].crm # Null \/ evals[k].sis # Null

\* The call carries the type, severity and explanation of the primary
\* anomaly of the k-th evaluation.
C20_Carries(j, k) ==
  LET primary == C1_Expected(evals[k].crm, evals[k].sis)
  IN  /\ calls[j].anomaly # Null
      /\ calls[j].anomaly.type = primary.type
      /\ calls[j].anomaly.severity = primary.severity
      /\ calls[j].anomaly.explanation = primary.explanation

\* One field update, then one activity-log write (whether or not the update
\* succeeded), each carrying the primary anomaly of an evaluation in ks.
C20_OneWriteBack(updates, logs, ks) ==
  /\ Cardinality(updates) = 1
  /\ Cardinality(logs) = 1
  /\ \A u \in updates : \A l \in logs :
       /\ u < l
       /\ \E k \in ks : C20_Carries(u, k) /\ C20_Carries(l, k)

\* Every lead that got a write-back attempt is in the report's list.
C20_WrittenLeadsReported ==
  ScanReported =>
    \A j \in CallsOf(WriteOps) :
      \E n \in DOMAIN response.body.anomalies :
        response.body.anomalies[n].leadId = calls[j].leadId

\* C20: when the scan has reported, each lead with a fired anomaly has got
\* exactly one field update followed by exactly one activity-log write
\* carrying its primary anomaly, each other lead has got none, and the
\* written leads are in the report.
C20_OneWriteBackPerAnomalousLead ==
  /\ ScanReported =>
       \A id \in ProspectIDs :
         LET ks == {k \in DOMAIN evals :
                      evals[k].lead.ProspectID = id /\ C20_Fired(k)}
             updates == {j \in CallsOf({"updateLead"}) : calls[j].leadId = id}
             logs == {j \in CallsOf({"logAIDecision"}) : calls[j].leadId = id}
         IN  IF ks # {} THEN C20_OneWriteBack(updates, logs, ks)
             ELSE updates = {} /\ logs = {}
  /\ C20_WrittenLeadsReported

\* What holds of C20 in the code: the same per iteration of the lead loop.
C20_OneWriteBackPerIteration ==
  /\ ScanReported =>
       \A k \in DOMAIN evals :
         LET updates == {j \in CallsOf({"updateLead"}) : calls[j].at = k}
             logs == {j \in CallsOf({"logAIDecision"}) : calls[j].at = k}
         IN  IF C20_Fired(k) THEN C20_OneWriteBack(updates, logs, {k})
             ELSE updates = {} /\ logs = {}
  /\ C20_WrittenLeadsReported

(***************************************************************************)
(* C21.  The activity list is fetched lazily: during a scan an activity    *)
(* fetch is issued for a lead only if "Offer Stalled" did not fire for it  *)
(* and either its stage is "Application Completed" with days-in-stage > 5  *)
(* or its stage is "Application Pending" with days-in-stage > 7; no        *)
(* activity fetch is ever issued for a lead for which "Offer Stalled"      *)
(* fires or for a lead at stage "Engagement Initiated".                    *)
(***************************************************************************)
\* The activity fetches the i-th iteration of the lead loop issued.
C21_Fetches(i) == {j \in CallsOf({"fetchActivities"}) : calls[j].at = i}

\* The lead is at a stage whose rule reads the activities, for long enough.
C21_ActivityRuleEntered(lead) ==
  \/ /\ lead.ProspectStage = "Application Completed"
     /\ WholeDaysOld(lead.mx_Stage_Entered_On, 5)
  \/ /\ lead.ProspectStage = "Application Pending"
     /\ WholeDaysOld(lead.mx_Stage_Entered_On, 7)

\* C21: a lead's activities were fetched only if "Offer Stalled" did not
\* fire for it and it is at "Application Completed" for more than 5 days or
\* at "Application Pending" for more than 7 (and then they were fetched);
\* never for a lead with "Offer Stalled" or at "Engagement Initiated".
C21_LazyActivityFetch ==
  \A i \in DOMAIN evals :
    /\ C21_Fetches(i) # {} <=>
         /\ TypeOf(evals[i].crm) # "Offer Stalled"
         /\ C21_ActivityRuleEntered(evals[i].lead)
    /\ TypeOf(evals[i].crm) = "Offer Stalled" => C21_Fetches(i) = {}
    /\ evals[i].lead.ProspectStage = "Engagement Initiated" =>
         C21_Fetches(i) = {}
    /\ evals[i].fetched <=> C21_Fetches(i) # {}

\* The activities of a lead at "Application Pending" for 8 days whose offer
\* is 14 days old were fetched, and held an engagement activity.
C21_Witness ==
  /\ ScanReported
  /\ \E i \in DOMAIN evals :
       /\ evals[i].lead.ProspectStage = "Application Pending"
       /\ evals[i].lead.mx_Stage_Entered_On = DaysAgo(8)
       /\ evals[i].lead.mx_Offer_Given_Date = DaysAgo(14)
       /\ C21_Fetches(i) # {}
       /\ evals[i].activities = <<Activity(KwEmailOpened)>>
       /\ evals[i].crm = Null

(***************************************************************************)
(* C22.  For every merged record, the SIS rule set returns no anomaly when *)
(* no SIS record is joined, and otherwise returns the anomaly of the first *)
(* rule, in the order Enrollment Status Mismatch (Withdrawn), Enrollment   *)
(* Status Mismatch - Admitted, High Tuition Balance, Academic Probation /  *)
(* Suspension, Zero Progress, whose condition holds, regardless of         *)
(* severity; e.g. a record with SIS status "Enrolled", tuition balance     *)
(* between 3000 and 5000, aid not "Denied" and standing "Suspension"       *)
(* yields "High Tuition Balance" (Medium) and not the Critical suspension  *)
(* anomaly.                                                                *)
(***************************************************************************)
\* The tuition balance of the SIS row is a number above n dollars.
C22_BalanceAbove(row, n) ==
  row.tuition_balance.kind = "num" /\ row.tuition_balance.cents > n * 100

\* The condition of each SIS rule, on the lead and its SIS row.
C22_RuleHolds(rule, e) ==
  CASE rule = 1 -> /\ e.sisRecord.enrollment_status = "Withdrawn"
                   /\ e.lead.ProspectStage \in
                        {"Engagement Initiated", "Application Pending",
                         "Application Completed", "Enrolled"}
    [] rule = 2 -> /\ e.sisRecord.student_id # ""
                   /\ e.sisRecord.enrollment_status \in {"Active", "Admitted"}
                   /\ e.lead.ProspectStage = "Application Completed"
    [] rule = 3 -> /\ e.sisRecord.enrollment_status \in {"Enrolled", "Active"}
                   /\ C22_BalanceAbove(e.sisRecord, 3000)
    [] rule = 4 -> e.sisRecord.academic_standing \in {"Probation", "Suspension"}
    [] rule = 5 -> /\ e.sisRecord.enrollment_status = "Enrolled"
                   /\ e.sisRecord.credits_earned = [nan |-> FALSE, v |-> 0]
                   /\ e.sisRecord.current_term # ""

\* The anomaly type of each SIS rule.
C22_RuleType(rule, e) ==
  CASE rule = 1 -> "Enrollment Status Mismatch"
    [] rule = 2 -> "Enrollment Status Mismatch - Admitted"
    [] rule = 3 -> "High Tuition Balance"
    [] rule = 4 -> IF e.sisRecord.academic_standing = "Suspension"
                   THEN "Academic Suspension" ELSE "Academic Probation"
    [] rule = 5 -> "Zero Progress - Active Student"

\* C22: without a joined SIS row there is no SIS anomaly; with one, the SIS
\* anomaly is that of the first of the five rules whose condition holds,
\* and none if no condition holds.
C22_FirstSisRuleWins ==
  \A i \in DOMAIN evals :
    IF evals[i].sisRecord = Null THEN evals[i].sis = Null
    ELSE LET holding == {r \in 1..5 : C22_RuleHolds(r, evals[i])}
         IN  IF holding = {} THEN evals[i].sis = Null
             ELSE TypeOf(evals[i].sis) =
                    C22_RuleType(CHOOSE r \in holding : \A q \in holding : r <= q,
                                 evals[i])

\* An enrolled student on suspension with a balance of 3000.01 and approved
\* aid got the Medium "High Tuition Balance".
C22_Witness ==
  /\ ScanReported
  /\ \E i \in DOMAIN evals :
       /\ evals[i].sisRecord # Null
       /\ evals[i].sisRecord.enrollment_status = "Enrolled"
       /\ evals[i].sisRecord.academic_standing = "Suspension"
       /\ evals[i].sisRecord.tuition_balance = Balance(300001)
       /\ evals[i].sisRecord.financial_aid_status = "Approved"
       /\ TypeOf(evals[i].sis) = "High Tuition Balance"
       /\ evals[i].sis.severity = "Medium"

(***************************************************************************)
(* C23.  "High Tuition Balance" fires exactly when the SIS status is       *)
(* "Enrolled" or "Active" and the tuition balance is strictly greater than *)
(* 3000 (and no earlier SIS rule fired); its severity is Critical if the   *)
(* financial-aid status is "Denied", else High if the balance is strictly  *)
(* greater than 5000, else Medium (so a balance of exactly 5000 without    *)
(* denied aid is Medium and a balance of exactly 3000 does not fire).      *)
(***************************************************************************)
\* The balance of the SIS row, in cents, is a number above the given one.
C23_CentsAbove(row, cents) ==
  row.tuition_balance.kind = "num" /\ row.tuition_balance.cents > cents

\* An earlier SIS rule (a status mismatch) fires for the lead.
C23_EarlierRuleFires(e) ==
  TypeOf(e.sis) \in {"Enrollment Status Mismatch",
                     "Enrollment Status Mismatch - Admitted"}

\* C23: the SIS anomaly is "High Tuition Balance" exactly for a joined row
\* with status Enrolled or Active and a balance above 3000.00 when no
\* status-mismatch rule fired; it is Critical with denied aid, else High
\* above 5000.00, else Medium.
C23_HighTuitionBalance ==
  \A i \in DOMAIN evals :
    LET e == evals[i]
        row == e.sisRecord
    IN  /\ TypeOf(e.sis) = "High Tuition Balance" <=>
             /\ row # Null
             /\ row.enrollment_status \in {"Enrolled", "Active"}
             /\ C23_CentsAbove(row, 300000)
             /\ ~C23_EarlierRuleFires(e)
        /\ TypeOf(e.sis) = "High Tuition Balance" =>
             e.sis.severity =
               IF row.financial_aid_status = "Denied" THEN "Critical"
               ELSE IF C23_CentsAbove(row, 500000) THEN "High"
               ELSE "Medium"
        /\ (row # Null /\ row.tuition_balance = Balance(300000)) =>
             TypeOf(e.sis) # "High Tuition Balance"

\* An enrolled student with a balance of exactly 5000.00 and approved aid
\* got the Medium "High Tuition Balance".
C23_Witness ==
  /\ ScanReported
  /\ \E i \in DOMAIN evals :
       /\ evals[i].sisRecord # Null
       /\ evals[i].sisRecord.tuition_balance = Balance(500000)
       /\ evals[i].sisRecord.financial_aid_status = "Approved"
       /\ TypeOf(evals[i].sis) = "High Tuition Balance"
       /\ evals[i].sis.severity = "Medium"

(***************************************************************************)
(* C24.  The primary anomaly written back for a lead always has the        *)
(* highest severity (ordering Medium < High < Critical) among the          *)
(* anomalies fired for that lead in the scan: its severity is never lower  *)
(* than that of the lead's CRM anomaly or of its SIS anomaly.              *)
(***************************************************************************)
\* Medium < High < Critical; 0 for no anomaly.
C24_Level(a) ==
  IF a = Null THEN 0
  ELSE CASE a.severity = "Medium" -> 1
         [] a.severity = "High" -> 2
         [] a.severity = "Critical" -> 3

\* C24: every write-back call carries an anomaly whose severity is at least
\* that of the CRM anomaly and of the SIS anomaly of the loop iteration that
\* issued it.
C24_PrimaryIsMostSevere ==
  \A j \in CallsOf(WriteOps) :
    /\ calls[j].anomaly # Null
    /\ calls[j].at \in DOMAIN evals
    /\ C24_Level(calls[j].anomaly) >= C24_Level(evals[calls[j].at].crm)
    /\ C24_Level(calls[j].anomaly) >= C24_Level(evals[calls[j].at].sis)

\* A lead with a High CRM anomaly and a Medium SIS anomaly was written back
\* with the High one.
C24_Witness ==
  \E j \in CallsOf({"logAIDecision"}) :
    /\ C24_Level(evals[calls[j].at].crm) = 2
    /\ C24_Level(evals[calls[j].at].sis) = 1
    /\ C24_Level(calls[j].anomaly) = 2

(***************************************************************************)
(* C30                                                                     *)
(***************************************************************************)
C30_NoStageDate(i) == evals[i].lead.mx_Stage_Entered_On = DateAbsent

C30_NoOfferDate(i) == evals[i].lead.mx_Offer_Given_Date = DateAbsent

\* C30: a lead without a stage-entered timestamp has 0 days in its stage, a
\* lead without an offer timestamp has no offer for rule 1 to age, and a lead
\* with neither yields no CRM anomaly and no activity fetch, whatever its
\* stage, source and activities.
C30_UndatedLeadIsQuiet ==
  \A i \in DOMAIN evals :
    /\ C30_NoStageDate(i) => evals[i].merged.daysInStage = Num(0)
    /\ C30_NoOfferDate(i) => TypeOf(evals[i].crm) # "Offer Stalled"
    /\ (C30_NoStageDate(i) /\ C30_NoOfferDate(i)) =>
         /\ evals[i].crm = Null
         /\ ~evals[i].fetched
         /\ C21_Fetches(i) = {}

\* An undated lead at "Application Completed" with no counselor activity was
\* scanned and reported.
C30_Witness ==
  /\ ScanReported
  /\ \E i \in DOMAIN evals :
       /\ C30_NoStageDate(i) /\ C30_NoOfferDate(i)
       /\ evals[i].lead.ProspectStage = "Application Completed"
       /\ evals[i].lead.Source \in HIGH_INTENT_SOURCES
       /\ ~C4_Matches(evals[i].recent, COUNSELOR_KEYWORDS)
       /\ evals[i].crm = Null
       /\ C21_Fetches(i) = {}

(***************************************************************************)
(* C28                                                                     *)
(***************************************************************************)
\* The leads of the report's anomaly list, and the leads a write-back call
\* was issued for (whether or not it succeeded).
C28_ListedLeads ==
  {response.body.anomalies[k].leadId : k \in DOMAIN response.body.anomalies}

C28_WrittenLeads == {calls[j].leadId : j \in CallsOf(WriteOps)}

\* C28: in every success report of a scan over at least one lead,
\* anomalies_detected is the length of the anomaly list, the three severity
\* counts add up to it, the two origin counts add up to it, and as many
\* leads received a write-back attempt as there are distinct leads in the
\* list.
C28_CountsConsistent ==
  ScanReported =>
    LET body == response.body
    IN  /\ body.anomalies_detected = Len(body.anomalies)
        /\ body.by_severity.critical + body.by_severity.high
             + body.by_severity.medium = body.anomalies_detected
        /\ body.by_source.crm + body.by_source.sis = body.anomalies_detected
        /\ Cardinality(C28_WrittenLeads) = Cardinality(C28_ListedLeads)

\* A report of three anomalies on two leads, one of them Critical, of both
\* origins.
C28_Witness ==
  /\ ScanReported
  /\ response.body.anomalies_detected = 3
  /\ response.body.by_severity.critical = 1
  /\ response.body.by_source.crm > 0
  /\ response.body.by_source.sis > 0
  /\ Cardinality(C28_ListedLeads) = 2
  /\ Cardinality(C28_WrittenLeads) = 2

(***************************************************************************)
(* C26                                                                     *)
(***************************************************************************)
C26_StageFetches == CallsOf({"fetchStudentsByStage"})

C26_LeadCalls == CallsOf({"fetchActivities", "updateLead", "logAIDecision"})

C26_SummarizerCalls == CallsOf({"analyzeWithOpenAI"})

\* The run is past its lead fetches: it is in the loop over the leads, in the
\* summarizer, or has reported.
C26_Evaluating ==
  pc \in {"detect", "activities", "update", "log", "analyze"} \/ ScanReported

\* Every stage was fetched, with success, before any call for a lead.
C26_FetchesFirst ==
  /\ \A s \in 1..Len(TARGET_STAGES) :
       \E j \in C26_StageFetches :
         calls[j].leadId = TARGET_STAGES[s] /\ calls[j].ok
  /\ \A j \in C26_StageFetches : \A k \in C26_LeadCalls : j < k

\* Lead i's write-back has completed: both calls were issued and returned.
C26_WrittenBack(i) ==
  \E u \in CallsOf({"updateLead"}), l \in CallsOf({"logAIDecision"}) :
    calls[u].at = i /\ calls[l].at = i /\ u < l

\* Every lead was evaluated and every anomalous one written back.
C26_LoopDone ==
  /\ Len(evals) = Len(allStudents)
  /\ \A i \in DOMAIN evals :
       (evals[i].crm # Null \/ evals[i].sis # Null) => C26_WrittenBack(i)

\* C26: a run passes through its phases in order.  All per-stage lead
\* fetches complete before the first rule evaluation; the summarizer is
\* invoked only after every anomalous lead was written back; the response is
\* sent only after the summarizer returned; and the summarizer issues its
\* HTTP call only if a key is configured and the anomaly list is not empty.
C26_PhasesInOrder ==
  /\ (C26_Evaluating \/ Len(evals) > 0 \/ C26_LeadCalls # {}) => C26_FetchesFirst
  /\ (pc = "analyze" \/ C26_SummarizerCalls # {}) => C26_LoopDone
  /\ \A j \in C26_SummarizerCalls :
       /\ openaiKey
       /\ Len(anomalies) > 0
       /\ \A k \in C26_LeadCalls \cup C26_StageFetches : k < j
  /\ pc # "idle" => response = Null
  /\ ScanReported =>
       /\ C26_LoopDone
       /\ (openaiKey /\ Len(anomalies) > 0) =>
            /\ C26_SummarizerCalls # {}
            /\ calls[Len(calls)].op = "analyzeWithOpenAI"

\* A reported scan of two anomalous leads, both written back before the
\* summarizer's one request.
C26_Witness ==
  /\ ScanReported
  /\ Len(evals) = 2
  /\ C26_WrittenBack(1) /\ C26_WrittenBack(2)
  /\ Cardinality(C26_SummarizerCalls) = 1
  /\ calls[Len(calls)].op = "analyzeWithOpenAI"

(***************************************************************************)
(* C27                                                                     *)
(***************************************************************************)
\* The response is a success report or the 500 error.
C27_ReportOrError ==
  IF response.status = 200
  THEN /\ "message" \in DOMAIN response.body
       /\ response.body.message \in {"Hawke scan complete",
                                     "Hawke scanned - no student leads found"}
  ELSE /\ response.status = 500
       /\ DOMAIN response.body = {"error", "details"}
       /\ response.body.error = "Hawke scan failed"

\* A step that changes the response is the arrival of a request, which clears
\* it, or the one step of a run that sends it and ends the run.
C27_RespondsOnce ==
  response' # response =>
    \/ pc = "idle" /\ pc' = "sis" /\ response' = Null
    \/ pc # "idle" /\ pc' = "idle" /\ response = Null /\ response' # Null

\* C27: if every external call eventually resolves or errors, every run
\* eventually terminates, having sent exactly one response, a success report
\* or a 500 error; no response is sent while a call is pending.
C27_RunTerminates ==
  /\ [](pc # "idle" => response = Null)
  /\ [](RunEnded => C27_ReportOrError)
  /\ [][C27_RespondsOnce]_vars
  /\ (pc # "idle") ~> RunEnded

\* A run that ended with the error response when its last lead fetch failed.
C27_Witness ==
  /\ RunEnded
  /\ response.status = 500
  /\ Len(calls) = 1 + Len(TARGET_STAGES)
  /\ ~calls[Len(calls)].ok

(***************************************************************************)
(* C25                                                                     *)
(***************************************************************************)
\* The run whose write `op` to the lead reached the CRM last.
C25_LastWriter(op, leadId) ==
  LET at == {i \in DOMAIN writes :
               writes[i].op = op /\ writes[i].leadId = leadId}
  IN  IF at = {} THEN "none"
      ELSE writes[CHOOSE i \in at : \A j \in at : j <= i].run

\* Run r is about to write to the lead.
C25_AboutToWrite(r, leadId) ==
  /\ runs[r].pc \in {"update", "log"}
  /\ LeadOf(runs[r]).ProspectID = leadId

\* C25: overlapping requests are not serialized.  A request is admitted
\* whatever the other run is doing, and while one run is between its field
\* update and its activity-log write for a lead, a write of the other run to
\* that lead can go through.
C25_NotSerialized ==
  \A r \in RunIds :
    /\ r \in runsLeft => ENABLED RunIntelligenceIn(r)
    /\ \A o \in RunIds \ {r} :
         (runs[r].pc = "log" /\ C25_AboutToWrite(o, LeadOf(runs[r]).ProspectID))
           => (ENABLED UpdateLeadIn(o) \/ ENABLED LogAIDecisionIn(o))

\* Both runs have ended; for some lead, run r's field update and its
\* activity-log write were separated by a write of run o to that lead, the
\* lead's fields were last written by o and its latest activity by r.
C25_Witness ==
  /\ \A r \in RunIds : runs[r].pc = "idle" /\ runs[r].response # Null
  /\ \E leadId \in ProspectIDs, r \in RunIds :
       \E o \in RunIds \ {r} :
         /\ \E i, j, k \in DOMAIN writes :
              /\ i < j /\ j < k
              /\ writes[i] = Write(r, "updateLead", leadId)
              /\ writes[j].run = o /\ writes[j].leadId = leadId
              /\ writes[k] = Write(r, "logAIDecision", leadId)
         /\ C25_LastWriter("updateLead", leadId) = o
         /\ C25_LastWriter("logAIDecision", leadId) = r
         /\ crmFields[leadId] # Null
         /\ crmActivities[leadId][1] = Activity(AI_DECISION_EVENT_NAME)

(***************************************************************************)
(* C29                                                                     *)
(***************************************************************************)
C29_Ended == coPc = "idle" /\ coResponse # Null

C29_FailedWrites == {j \in DOMAIN coCalls : coCalls[j].op \in WriteOps /\ ~coCalls[j].ok}

\* C29: in the CRM-only variant, a failed field update or activity-log write
\* for one lead is not fatal: the loop goes on to the last lead and the run
\* answers 'Hawke scanned successfully', not HTTP 500.
C29_WriteFailureNonFatal ==
  (C29_Ended /\ C29_FailedWrites # {}) =>
    /\ coResponse.status = 200
    /\ coResponse.body.message = "Hawke scanned successfully"
    /\ coIdx = Len(coLeads)

\* What the handler does instead: the failed write is the run's last call
\* and the run answers 500; the leads after the current one are not reached
\* (and after a failed field update the lead's activity is not logged).
C29_WriteFailureAborts ==
  (C29_Ended /\ C29_FailedWrites # {}) =>
    /\ coResponse = Response(500, ScanFailed)
    /\ C29_FailedWrites = {Len(coCalls)}
    /\ coIdx = coCalls[Len(coCalls)].at

\* A failed field update on the first of two anomalous leads ended the run.
C29_AbortedEarly ==
  /\ C29_Ended
  /\ Len(coLeads) = 2
  /\ coIdx = 1
  /\ coCalls[Len(coCalls)].op = "updateLead"
  /\ ~coCalls[Len(coCalls)].ok
  /\ CrmOnlyRules(coLeads[2], <<>>) # Null
====
